---- MODULE Spec2Model ----
(***************************************************************************)
(* Model of the UALink data-link reliability engine:                       *)
(*   DlTxController    (src/src/dl_tx_controller.cpp)                      *)
(*   DlSequenceTracker (src/src/dl_replay.cpp)                             *)
(*   DlAckNakManager   (src/src/dl_command.cpp)                            *)
(*   DlReplayBuffer    (src/src/dl_replay.cpp)                             *)
(*   UaLinkEndpoint    (src/src/ualink_endpoint.cpp)                       *)
(* Each component has its own specification (SpecTx, SpecTracker,          *)
(* SpecAckNak, SpecReplay, SpecEndpoint) over the shared variables; the    *)
(* variables of the other components stay at their constructed values.     *)
(***************************************************************************)
EXTENDS Integers, Sequences, FiniteSets, TLC

VARIABLES
  state_,            \* DlTxController::state_ (TxSequenceState)
  tx_ret,            \* result of the last DlTxController call
  tx_alloc,          \* history: the last two payload sequence numbers allocated since reset
  tx_stats_,         \* DlTxController::stats_ (ack_flits_sent, replay_req_flits_sent)
  tx_open,           \* history: start_replay was called with no finish_replay or reset since
  tx_falses,         \* history: the ticks that returned false since the last tick that
                     \* returned true (run), and the run that preceded that tick (last)
  expected_seq_,     \* DlSequenceTracker::expected_seq_ (DlAckNakManager::rx_seq_tracker_)
  ack_every_n_,      \* DlAckNakManager::ack_every_n_
  flits_since_ack_,  \* DlAckNakManager::flits_since_ack_
  rx_ret,            \* the last process_received_flit call: its arguments and returned optional flit
  rx_stream,         \* history: position in the stream of in-order flits under the current Ack policy
  buffer_,           \* DlReplayBuffer::buffer_ (ring of BufferEntry)
  head_,             \* DlReplayBuffer::head_
  tail_,             \* DlReplayBuffer::tail_
  count_,            \* DlReplayBuffer::count_
  rb_ret,            \* the last DlReplayBuffer call: its argument and its result
  rb_adds,           \* history: number of add_flit calls made
  rb_acks,           \* history: number of process_ack calls made
  rb_next,           \* the caller's next sequence number to buffer
  tx_last_seq_,      \* UaLinkEndpoint::tx_last_seq_
  transmit_callback_,\* UaLinkEndpoint::transmit_callback_ is set
  ep_out,            \* flits handed to the transmit callback by the last endpoint call
  ep_ret,            \* the last endpoint call and its argument
  ep_sends,          \* history: number of send requests made
  next_tag_,         \* UaLinkEndpoint::next_tag_
  tag_ret,           \* the tag the last send request returned, and the number of
                     \* send requests that have returned a tag
  pk_in,             \* the TL flits given to DlSerializer
  pk_hdr,            \* the ExplicitFlitHeaderFields given to DlSerializer
  pk_ser,            \* the last DlSerializer call: the flit and count it returned, or its exception
  pk_out,            \* the last deserialize_with_crc_check call and the optional it returned
  enable_crc_check_, \* UaLinkEndpoint::enable_crc_check_
  enable_ack_nak_,   \* UaLinkEndpoint::enable_ack_nak_
  rx_callback_,      \* DlPacingController::rx_callback_ is set (UaLinkEndpoint::pacing_controller_)
  stats_,            \* UaLinkEndpoint::stats_
  cmd_stats_,        \* DlCommandProcessor::stats_ (UaLinkEndpoint::command_processor_)
  delivered,         \* history: the TL flits handed to a completion callback
  rx_notified,       \* history: the notify_rx calls made, by their crc_valid argument
  rcv_ret,           \* the last receive_flit call: its flit, and whether it threw
  rcv_count,         \* history: number of receive_flit calls made
  basic_queue_,      \* DlMessageQueue::basic_queue_
  control_queue_,    \* DlMessageQueue::control_queue_
  uart_queue_,       \* DlMessageQueue::uart_queue_
  last_served_group_,\* DlMessageQueue::last_served_group_
  uart_transport_state_, \* DlMessageQueue::uart_transport_state_
  mq_stats_,         \* DlMessageQueue::stats_
  mq_ret,            \* the last DlMessageQueue call and what it returned
  mq_enqueued,       \* history: number of enqueue calls made
  mq_in,             \* history: the messages enqueued, in the order of the calls
  mq_flight,         \* history: the UART Stream Transport whose DWords are being returned
  mq_out,            \* history: the DWords pop_next_dword returned, each with its message,
                     \* its index in the message, and for a first DWord the other groups
                     \* that had a message pending when it was selected
  mq_wait,           \* history: per group with a pending message, the messages of each
                     \* other group served since its front message came to the front
  callbacks_,        \* DlMessageProcessor: the callback members that are set
  basic_timeout_,    \* DlMessageProcessor::basic_timeout_ (BasicMessageTimeout)
  channel_state_,    \* DlMessageProcessor::channel_state_ (ChannelNegotiationState)
  uart_reassembly_,  \* DlMessageProcessor::uart_reassembly_ (UartStreamReassembly)
  mp_stats_,         \* DlMessageProcessor::stats_
  mp_ret,            \* the last DlMessageProcessor call: its arguments, the state it
                     \* found, its result and the callback it invoked
  mp_calls,          \* history: number of DlMessageProcessor calls made
  mp_expired,        \* history: kTimeoutExpired results since the last start_basic_timeout
  mp_fed,            \* history: the DWords processed since the Stream Transport header
                     \* that started the reassembly in progress
  ack_callback_,     \* DlCommandProcessor::ack_callback_ is set
  nak_callback_,     \* DlCommandProcessor::nak_callback_ is set
  cp_ret,            \* the last DlCommandProcessor call: its flit, its result, the
                     \* callbacks it invoked, and the stats_ and callbacks it found
  cp_calls,          \* history: number of process_flit calls made
  tx_callback_,      \* DlPacingController::tx_callback_ (UaLinkEndpoint::pacing_controller_):
                     \* "none", or the PacingDecision the callback answers
  error_policy_,     \* UaLinkEndpoint::error_injector_: "none" when not enabled, or the
                     \* ErrorType its policy returns
  tx_path_stats_,    \* UaLinkEndpoint::stats_, the counters the transmit path writes
  pc_sends,          \* history: number of send requests made of the configured endpoint
  periodic_policy_,  \* the PeriodicErrorPolicy held by a DlErrorInjector::policy_
  pe_flits,          \* history: number of flits passed through the injector
  port_config_,      \* UpliCreditManager::port_config_
  port_state_,       \* UpliCreditManager::port_state_
  initialized_,      \* UpliCreditManager::initialized_
  uc_ret,            \* the last UpliCreditManager call: its arguments and its result
  uc_calls,          \* history: number of UpliCreditManager calls made
  to_receiver,       \* link: the flits on their way to the receiving endpoint, in order
  to_sender,         \* link: the flits on their way back to the sending endpoint, in order
  peer_stats_,       \* the receiving endpoint's stats_
  lk_ret             \* the last delivery of the link: the flit, the endpoint it reached
                     \* and the command flit that endpoint answered with

txVars == <<state_, tx_ret, tx_alloc, tx_falses, tx_stats_, tx_open>>
rxVars == <<expected_seq_, ack_every_n_, flits_since_ack_, rx_ret, rx_stream>>
rbVars == <<buffer_, head_, tail_, count_, rb_ret, rb_adds, rb_acks, rb_next>>
tagVars == <<next_tag_, tag_ret>>
epVars == <<tx_last_seq_, transmit_callback_, ep_out, ep_ret, ep_sends, tagVars>>
pkVars == <<pk_in, pk_hdr, pk_ser, pk_out>>
rcvVars == <<enable_crc_check_, enable_ack_nak_, rx_callback_, stats_, cmd_stats_, delivered,
             rx_notified, rcv_ret, rcv_count>>
mqVars == <<basic_queue_, control_queue_, uart_queue_, last_served_group_,
            uart_transport_state_, mq_stats_, mq_ret, mq_enqueued, mq_in, mq_flight, mq_out,
            mq_wait>>
mpVars == <<callbacks_, basic_timeout_, channel_state_, uart_reassembly_, mp_stats_, mp_ret,
            mp_calls, mp_expired, mp_fed>>
cpVars == <<ack_callback_, nak_callback_, cp_ret, cp_calls>>
pcVars == <<tx_callback_, error_policy_, tx_path_stats_, pc_sends>>
peVars == <<periodic_policy_, pe_flits>>
ucVars == <<port_config_, port_state_, initialized_, uc_ret, uc_calls>>
lkVars == <<to_receiver, to_sender, peer_stats_, lk_ret>>
extVars == <<pkVars, rcvVars, mqVars, mpVars, cpVars, pcVars, peVars, ucVars, lkVars>>
vars == <<txVars, rxVars, rbVars, epVars, extVars>>

(***************************************************************************)
(* Program constants                                                       *)
(***************************************************************************)
kReplayBufferSize == 512
kSequenceModulo == 512
kMaxSeq == 511
kInitialExplicitCount == 31
kAck == 1
kNak == 2
kDlPayloadBytes == 628
kTlFlitBytes == 64
kReadResponse == 1
kWriteCompletion == 3

(***************************************************************************)
(* Bounds of the model                                                     *)
(***************************************************************************)
MaxAckEveryN == 3
MaxRxSeq == 8
MaxAdds == 530
MaxAcks == 2
MaxEpSends == 4
MaxLinkSends == 513
MaxInFlight == 2
MaxCreditCalls == 4
MaxConfiguredCredits == 2
MaxPeriod == 4
MaxPeriodicFlits == 8
MaxSequencedFlits == 513
MaxDrops == 1
MaxTagSends == 4100
MaxFillSends == 516
MaxTlFlits == 10
MaxReceives == 1
MaxEnqueues == 5
MaxDrainEnqueues == 3
MaxPayloadDwords == 2
MaxTime == 2
MaxCallbacks == 1
MaxProcessorCalls == 3
MaxGenerates == 2
MaxGenerateSeq == 10
MaxCommandFlits == 2
MaxPacedSends == 2


(***************************************************************************)
(* DlTxController                                                          *)
(***************************************************************************)

\* Mutation of wrap_seq: the wrap test is off by one, so 511 is followed by 512.
wrap_seq_late(seq) == IF seq >= 512 THEN 1 ELSE seq + 1

\* wrap_seq: 511 -> 1, otherwise seq + 1
wrap_seq(seq) == IF seq >= kMaxSeq THEN 1 ELSE seq + 1

\* TxSequenceState after DlTxController::reset()
TxInitialState ==
  [last_seq |-> 0, explicit_count |-> kInitialExplicitCount,
   in_replay |-> FALSE, first_replay |-> FALSE]

TxRet(op, seq, flag) == [op |-> op, seq |-> seq, flag |-> flag]

TxInit ==
  /\ state_ = TxInitialState
  /\ tx_ret = TxRet("none", 0, FALSE)
  /\ tx_alloc = <<0, 0>>
  /\ tx_falses = [run |-> 0, last |-> 0]
  /\ tx_stats_ = [ack_flits_sent |-> 0, replay_req_flits_sent |-> 0]
  /\ tx_open = FALSE

\* DlTxController::get_next_seq_for_payload
get_next_seq_for_payload ==
  LET next_seq == wrap_seq(state_.last_seq)
      should_add_to_replay == ~state_.in_replay
  IN /\ state_' = [state_ EXCEPT !.last_seq = next_seq]
     /\ tx_ret' = TxRet("get_next_seq_for_payload", next_seq, should_add_to_replay)
     /\ tx_alloc' = <<tx_alloc[2], next_seq>>
     /\ UNCHANGED <<tx_falses, tx_stats_, tx_open>>

\* DlTxController::get_seq_for_nop
get_seq_for_nop ==
  /\ tx_ret' = TxRet("get_seq_for_nop", state_.last_seq, FALSE)
  /\ UNCHANGED <<state_, tx_alloc, tx_falses, tx_stats_, tx_open>>

\* Mutation of start_replay: replay mode is not entered.
start_replay_not_entered ==
  /\ state_' = [state_ EXCEPT !.first_replay = TRUE]
  /\ tx_ret' = TxRet("start_replay", 0, FALSE)
  /\ tx_open' = TRUE
  /\ UNCHANGED <<tx_alloc, tx_falses, tx_stats_>>

\* DlTxController::start_replay
start_replay ==
  /\ state_' = [state_ EXCEPT !.in_replay = TRUE, !.first_replay = TRUE]
  /\ tx_ret' = TxRet("start_replay", 0, FALSE)
  /\ tx_open' = TRUE
  /\ UNCHANGED <<tx_alloc, tx_falses, tx_stats_>>

\* DlTxController::finish_replay
finish_replay ==
  /\ state_' = [state_ EXCEPT !.in_replay = FALSE, !.first_replay = FALSE]
  /\ tx_ret' = TxRet("finish_replay", 0, FALSE)
  /\ tx_open' = FALSE
  /\ UNCHANGED <<tx_alloc, tx_falses, tx_stats_>>

\* the test `state_.explicit_count == 0` after the decrement
count_expired_early(explicit_count) == explicit_count <= 1

count_expired(explicit_count) == explicit_count = 0

\* DlTxController::tick_explicit_count
tick_explicit_count ==
  LET decremented == IF state_.explicit_count > 0
                       THEN state_.explicit_count - 1
                       ELSE state_.explicit_count
      opportunity == state_.first_replay \/ count_expired(decremented)
  IN  /\ state_' = IF state_.first_replay
                     THEN [state_ EXCEPT !.first_replay = FALSE,
                                         !.explicit_count = kInitialExplicitCount]
                   ELSE IF count_expired(decremented)
                     THEN [state_ EXCEPT !.explicit_count = kInitialExplicitCount]
                   ELSE [state_ EXCEPT !.explicit_count = decremented]
      /\ tx_ret' = TxRet("tick_explicit_count", 0, opportunity)
      /\ tx_falses' = IF opportunity
                        THEN [run |-> 0, last |-> tx_falses.run]
                        ELSE [tx_falses EXCEPT !.run = @ + 1]
      /\ UNCHANGED <<tx_alloc, tx_stats_, tx_open>>

\* DlTxController::reset
tx_reset ==
  /\ state_' = TxInitialState
  /\ tx_ret' = TxRet("reset", 0, FALSE)
  /\ tx_alloc' = <<0, 0>>
  /\ tx_falses' = [run |-> 0, last |-> 0]
  /\ tx_open' = FALSE
  /\ UNCHANGED tx_stats_

(***************************************************************************)
(* Command flit header (3 bytes, MSB first):                               *)
(*   op:3, payload:1, ack_req_seq:9, flit_seq_lo:3, reserved:8             *)
(* The header is kept as the 24-bit number its three bytes spell.          *)
(***************************************************************************)

\* encode_command_flit_header
serialize_command_flit_header(fields) ==
  fields.op * 2097152
    + (IF fields.payload THEN 1 ELSE 0) * 1048576
    + fields.ack_req_seq * 2048
    + fields.flit_seq_lo * 256

\* decode_command_flit_header
deserialize_command_flit_header(bytes) ==
  [op          |-> (bytes \div 2097152) % 8,
   payload     |-> ((bytes \div 1048576) % 2) # 0,
   ack_req_seq |-> (bytes \div 2048) % 512,
   flit_seq_lo |-> (bytes \div 256) % 8]

\* DlFlit: the 3 header bytes as a 24-bit number, and the segment headers and
\* payload as one value (0: all zero bytes); the CRC is a function of both
DlFlit(header, body) == [flit_header |-> header, body |-> body]

\* std::optional<DlFlit>
NoFlit == [has_value |-> FALSE, flit |-> DlFlit(0, 0)]
SomeFlit(flit) == [has_value |-> TRUE, flit |-> flit]

\* CommandFactory::create_ack
create_ack(ack_seq, flit_seq_lo) ==
  DlFlit(serialize_command_flit_header(
           [op |-> kAck, payload |-> FALSE, ack_req_seq |-> ack_seq,
            flit_seq_lo |-> flit_seq_lo % 8]), 0)

\* CommandFactory::create_nak (the Replay Request command)
create_nak(nak_seq, flit_seq_lo) ==
  DlFlit(serialize_command_flit_header(
           [op |-> kNak, payload |-> FALSE, ack_req_seq |-> nak_seq,
            flit_seq_lo |-> flit_seq_lo % 8]), 0)

\* `state_.last_seq & 0x7U` of generate_ack and generate_replay_request
tx_flit_seq_lo(last_seq) == last_seq % 8

\* DlTxController::generate_ack
generate_ack(ack_seq) ==
  /\ tx_stats_' = [tx_stats_ EXCEPT !.ack_flits_sent = @ + 1]
  /\ tx_ret' = [op |-> "generate_ack", seq |-> ack_seq, flag |-> FALSE,
                before |-> state_,
                flit |-> create_ack(ack_seq, tx_flit_seq_lo(state_.last_seq))]
  /\ UNCHANGED <<state_, tx_alloc, tx_falses, tx_open>>

\* DlTxController::generate_replay_request; the factory of the Replay Request
\* command is CommandFactory::create_nak
generate_replay_request(replay_seq) ==
  /\ tx_stats_' = [tx_stats_ EXCEPT !.replay_req_flits_sent = @ + 1]
  /\ tx_ret' = [op |-> "generate_replay_request", seq |-> replay_seq, flag |-> FALSE,
                before |-> state_,
                flit |-> create_nak(replay_seq, tx_flit_seq_lo(state_.last_seq))]
  /\ UNCHANGED <<state_, tx_alloc, tx_falses, tx_open>>

(***************************************************************************)
(* DlSequenceTracker                                                       *)
(***************************************************************************)

\* DlSequenceTracker::is_expected
is_expected(seq_no) == seq_no = expected_seq_

\* DlSequenceTracker::is_duplicate
is_duplicate(seq_no) ==
  IF seq_no < expected_seq_
    THEN (expected_seq_ - seq_no) < (kSequenceModulo \div 2)
    ELSE IF seq_no > expected_seq_
      THEN (seq_no - expected_seq_) >= (kSequenceModulo \div 2)
      ELSE FALSE

\* the value DlSequenceTracker::advance stores
advanced(seq) == (seq + 1) % kSequenceModulo

(***************************************************************************)
(* DlAckNakManager                                                         *)
(***************************************************************************)

RxRet(op, seq, lo, flit) ==
  [op |-> op, received_seq |-> seq, our_tx_seq_lo |-> lo, flit |-> flit]

RxInit ==
  /\ expected_seq_ = 1
  /\ ack_every_n_ = 0
  /\ flits_since_ack_ = 0
  /\ rx_ret = RxRet("none", 0, 0, NoFlit)
  /\ rx_stream = [fresh |-> TRUE, pos |-> 0]

\* DlSequenceTracker::advance
advance ==
  /\ expected_seq_' = advanced(expected_seq_)
  /\ rx_ret' = RxRet("advance", 0, 0, NoFlit)
  /\ UNCHANGED <<ack_every_n_, flits_since_ack_, rx_stream>>

\* DlSequenceTracker::reset
tracker_reset ==
  /\ expected_seq_' = 1
  /\ rx_ret' = RxRet("reset", 0, 0, NoFlit)
  /\ UNCHANGED <<ack_every_n_, flits_since_ack_, rx_stream>>

\* Mutation of AckDue: the batch test is strict, so the Ack comes one flit late.
AckDueLate(since, n) == n = 0 \/ since > n

\* the Ack policy test of process_received_flit, on the incremented counter
AckDue(since, n) == n = 0 \/ since >= n

\* Mutation of DuplicateReply: a duplicate is acknowledged again.
DuplicateReplyAck(received_seq, our_tx_seq_lo) ==
  SomeFlit(create_ack(received_seq, our_tx_seq_lo))

\* what process_received_flit returns for a duplicate
DuplicateReply(received_seq, our_tx_seq_lo) == NoFlit

\* Mutation of GapReply: the request names the received sequence, not the expected one.
GapReplyReceived(received_seq, our_tx_seq_lo) ==
  SomeFlit(create_nak(received_seq, our_tx_seq_lo))

\* what process_received_flit returns for an out-of-order sequence number
GapReply(received_seq, our_tx_seq_lo) ==
  SomeFlit(create_nak(expected_seq_, our_tx_seq_lo))

\* DlAckNakManager::process_received_flit
process_received_flit(received_seq, our_tx_seq_lo) ==
  IF is_expected(received_seq)
    THEN LET since == flits_since_ack_ + 1
         IN /\ expected_seq_' = advanced(expected_seq_)
            /\ IF AckDue(since, ack_every_n_)
                 THEN /\ flits_since_ack_' = 0
                      /\ rx_ret' = RxRet("process_received_flit", received_seq, our_tx_seq_lo,
                                         SomeFlit(create_ack(received_seq, our_tx_seq_lo)))
                 ELSE /\ flits_since_ack_' = since
                      /\ rx_ret' = RxRet("process_received_flit", received_seq, our_tx_seq_lo,
                                         NoFlit)
            /\ rx_stream' = [rx_stream EXCEPT
                               !.pos = IF ack_every_n_ = 0 THEN 0 ELSE (@ + 1) % ack_every_n_]
            /\ UNCHANGED ack_every_n_
    ELSE IF is_duplicate(received_seq)
      THEN /\ rx_ret' = RxRet("process_received_flit", received_seq, our_tx_seq_lo,
                              DuplicateReply(received_seq, our_tx_seq_lo))
           /\ UNCHANGED <<expected_seq_, ack_every_n_, flits_since_ack_, rx_stream>>
      ELSE /\ rx_ret' = RxRet("process_received_flit", received_seq, our_tx_seq_lo,
                              GapReply(received_seq, our_tx_seq_lo))
           /\ UNCHANGED <<expected_seq_, ack_every_n_, flits_since_ack_, rx_stream>>

\* DlAckNakManager::reset_rx_state
reset_rx_state ==
  /\ expected_seq_' = 1
  /\ flits_since_ack_' = 0
  /\ rx_ret' = RxRet("reset_rx_state", 0, 0, NoFlit)
  /\ rx_stream' = [fresh |-> TRUE, pos |-> 0]
  /\ UNCHANGED ack_every_n_

\* DlAckNakManager::set_ack_every_n_flits
set_ack_every_n_flits(n) ==
  /\ ack_every_n_' = n
  /\ rx_ret' = RxRet("set_ack_every_n_flits", 0, 0, NoFlit)
  /\ rx_stream' = [fresh |-> flits_since_ack_ = 0, pos |-> 0]
  /\ UNCHANGED <<expected_seq_, flits_since_ack_>>

\* received sequence numbers tried in a state: the expected one, its neighbours,
\* both edges of the half window, and the ends of the 9-bit range
ReceivedSeqInputs ==
  {(expected_seq_ + d) % 512 : d \in {0, 1, 255, 256, 257, 511}} \cup {0, 511}

\* our_tx_seq_lo values tried (a uint8_t; the endpoint passes tx_last_seq_ & 0x7)
TxSeqLoInputs == {2, 13}

(***************************************************************************)
(* DlReplayBuffer                                                          *)
(***************************************************************************)

\* BufferEntry; its valid flag is written by add_flit, process_ack and clear and read
\* nowhere, and is left out
BufferEntry(seq_no, flit) == [seq_no |-> seq_no, flit |-> flit]

RbRet(op, arg, ret) == [op |-> op, arg |-> arg, ret |-> ret]

\* DlReplayBuffer::size
size == count_

\* Mutation of is_full: the capacity test is off by one.
is_full_late == count_ = kReplayBufferSize + 1

\* DlReplayBuffer::is_full
is_full == count_ = kReplayBufferSize

\* DlReplayBuffer::is_empty
is_empty == count_ = 0

\* DlReplayBuffer::oldest_seq (0 stands for std::nullopt here: see has_oldest)
oldest_seq == IF is_empty THEN 0 ELSE buffer_[head_].seq_no

\* DlReplayBuffer::newest_seq
newest_seq ==
  IF is_empty THEN 0
  ELSE buffer_[(tail_ + kReplayBufferSize - 1) % kReplayBufferSize].seq_no

RbInit ==
  /\ buffer_ = [i \in 0..(kReplayBufferSize - 1) |-> BufferEntry(0, DlFlit(0, 0))]
  /\ head_ = 0
  /\ tail_ = 0
  /\ count_ = 0
  /\ rb_ret = RbRet("none", 0, 0)
  /\ rb_adds = 0
  /\ rb_acks = 0

\* DlReplayBuffer::add_flit
add_flit(seq_no, flit) ==
  IF is_full
    THEN /\ rb_ret' = RbRet("add_flit", seq_no, FALSE)
         /\ UNCHANGED <<buffer_, head_, tail_, count_>>
    ELSE /\ buffer_' = [buffer_ EXCEPT ![tail_ % kReplayBufferSize] = BufferEntry(seq_no, flit)]
         /\ tail_' = (tail_ + 1) % kReplayBufferSize
         /\ count_' = count_ + 1
         /\ rb_ret' = RbRet("add_flit", seq_no, TRUE)
         /\ UNCHANGED head_

\* Mutation of is_acked: an Ack numerically below the oldest entry acknowledges nothing.
is_acked_no_wrap(ack_seq, oldest) == ack_seq >= oldest

\* the test of process_ack's loop: is the oldest entry acknowledged by ack_seq
is_acked(ack_seq, oldest) ==
  IF ack_seq >= oldest
    THEN TRUE
    ELSE ((ack_seq + kSequenceModulo - oldest) % kSequenceModulo) < (kSequenceModulo \div 2)

\* one iteration of process_ack's loop on the entry at index head: does it retire the
\* entry (retired is 0 or 1), and does the loop end with it (entry not acknowledged,
\* or ack_seq itself retired)
retire_step(ack_seq, head) ==
  LET oldest == buffer_[head].seq_no
  IN IF ~is_acked(ack_seq, oldest)
       THEN [retired |-> 0, done |-> TRUE]
       ELSE [retired |-> 1, done |-> oldest = ack_seq]

\* two consecutive runs of iterations, the first of which did not end the loop
retire_join(first, rest) ==
  [retired |-> first.retired + rest.retired, done |-> rest.done]

\* the loop of process_ack (while count_ > 0) over the count entries from index head:
\* the number of entries retired and whether a break ended it. The iterations are
\* taken in two halves so that the evaluation stays shallow.
RECURSIVE retire_loop(_, _, _)
retire_loop(ack_seq, head, count) ==
  IF count = 0
    THEN [retired |-> 0, done |-> FALSE]
    ELSE IF count = 1
      THEN retire_step(ack_seq, head)
      ELSE LET first == retire_loop(ack_seq, head, count \div 2)
           IN IF first.done
                THEN first
                ELSE retire_join(first,
                                 retire_loop(ack_seq, (head + count \div 2) % kReplayBufferSize,
                                             count - count \div 2))

\* DlReplayBuffer::process_ack
process_ack(ack_seq) ==
  \E retired \in {retire_loop(ack_seq, head_, count_).retired} :
     /\ head_' = (head_ + retired) % kReplayBufferSize
     /\ count_' = count_ - retired
     /\ rb_ret' = RbRet("process_ack", ack_seq, retired)
     /\ UNCHANGED <<buffer_, tail_>>

\* DlReplayBuffer::process_nak: the span it returns, as a sequence of flits
process_nak_span(nak_seq) == << >>

(***************************************************************************)
(* A caller of DlReplayBuffer that buffers consecutive sequence numbers    *)
(* (as tests/dl_replay_test.cpp does), and retries a refused sequence      *)
(***************************************************************************)

\* the first sequence number the caller buffers
StartSeqs == {1, 300, 511}

\* the flit a test passes with sequence number seq (make_test_flit(seq))
TestFlit(seq) == DlFlit(0, seq)

\* the sequence number of the i-th oldest buffered entry, i in 1..count_
LiveSeq(i) == buffer_[(head_ + i - 1) % kReplayBufferSize].seq_no

\* the sequence number before seq in the cycle 1..511
seq_before(seq) == IF seq <= 1 THEN kMaxSeq ELSE seq - 1

\* fill levels at which the caller gets an Ack or a Replay Request: nearly empty,
\* around the half window, nearly full and full
AckLevels == {1, 2, 10, 255, 256, 257, 511, 512}

\* positions of the buffered entries whose sequence numbers are acknowledged:
\* the ends of the buffer and both sides of the half window
AckPositions == {1, 2, 255, 256, 257, count_} \cap (1..count_)

\* ack_seq values tried in a state: buffered ones, the neighbours of the buffered
\* range, and two fixed ones
AckSeqInputs ==
  {LiveSeq(i) : i \in AckPositions}
    \cup (IF is_empty THEN {} ELSE {seq_before(oldest_seq), wrap_seq(newest_seq)})
    \cup {1, 300}

AddFlit ==
  /\ rb_adds < MaxAdds
  /\ add_flit(rb_next, TestFlit(rb_next))
  /\ rb_adds' = rb_adds + 1
  /\ rb_next' = IF is_full THEN rb_next ELSE wrap_seq(rb_next)
  /\ UNCHANGED rb_acks

ProcessAck ==
  /\ rb_acks < MaxAcks
  /\ count_ \in AckLevels
  /\ \E ack_seq \in AckSeqInputs : process_ack(ack_seq)
  /\ rb_acks' = rb_acks + 1
  /\ UNCHANGED <<rb_adds, rb_next>>

(***************************************************************************)
(* UaLinkEndpoint: the transmit path, with no pacing callback and no error  *)
(* policy configured                                                       *)
(***************************************************************************)

\* encode_explicit_flit_header: op:3, payload:1, reserved:3, flit_seq_no:9,
\* reserved:8, most significant bit first, as the value of the three bytes
encode_explicit_flit_header(fields) ==
  fields.op * 2097152 + (IF fields.payload THEN 1 ELSE 0) * 1048576
    + fields.flit_seq_no * 256

EpRet(op, arg, threw) == [op |-> op, arg |-> arg, threw |-> threw]

\* the next_seq lambda of transmit_tl_flits
next_seq(last_seq) == (last_seq % 511) + 1

\* UaLinkEndpoint::set_transmit_callback, given a callable
set_transmit_callback ==
  /\ transmit_callback_' = TRUE
  /\ ep_out' = << >>
  /\ ep_ret' = EpRet("set_transmit_callback", 0, FALSE)
  /\ UNCHANGED <<tx_last_seq_, buffer_, head_, tail_, count_, rb_ret>>

\* UaLinkEndpoint::transmit_tl_flits for one TL flit with contents body: the DL
\* flit goes to the replay buffer (the result of add_flit is ignored) and to the
\* transmit callback
transmit_tl_flits(body) ==
  LET header == [op |-> 0, payload |-> TRUE, flit_seq_no |-> next_seq(tx_last_seq_)]
      dl_flit == DlFlit(encode_explicit_flit_header(header), body)
  IN /\ add_flit(header.flit_seq_no, dl_flit)
     /\ ep_out' = <<dl_flit>>
     /\ tx_last_seq_' = header.flit_seq_no

\* kTagSpace is the 12-bit tag space of allocate_tag, 0xFFF + 1
kTagSpace == 4096

\* UaLinkEndpoint::allocate_tag with a 16-bit tag space
allocate_tag_16bit ==
  /\ next_tag_' = (next_tag_ + 1) % 65536
  /\ tag_ret' = [tag |-> next_tag_, returned |-> tag_ret.returned + 1]

\* UaLinkEndpoint::allocate_tag, whose result the send request returns:
\* (next_tag_ + 1) & 0xFFF
allocate_tag ==
  /\ next_tag_' = (next_tag_ + 1) % kTagSpace
  /\ tag_ret' = [tag |-> next_tag_, returned |-> tag_ret.returned + 1]

\* UaLinkEndpoint::send_read_request for a request whose TL flit is body
send_read_request(body) ==
  IF ~transmit_callback_
    THEN /\ ep_ret' = EpRet("send_read_request", body, TRUE)
         /\ ep_out' = << >>
         /\ UNCHANGED <<tx_last_seq_, transmit_callback_, buffer_, head_, tail_, count_, rb_ret,
                        tagVars>>
    ELSE /\ allocate_tag
         /\ transmit_tl_flits(body)
         /\ ep_ret' = EpRet("send_read_request", body, FALSE)
         /\ UNCHANGED transmit_callback_

\* UaLinkEndpoint::send_write_request for data of data_size bytes, whose TL flit
\* is body
send_write_request(body, data_size) ==
  IF ~transmit_callback_ \/ data_size > 56
    THEN /\ ep_ret' = EpRet("send_write_request", body, TRUE)
         /\ ep_out' = << >>
         /\ UNCHANGED <<tx_last_seq_, transmit_callback_, buffer_, head_, tail_, count_, rb_ret,
                        tagVars>>
    ELSE /\ allocate_tag
         /\ transmit_tl_flits(body)
         /\ ep_ret' = EpRet("send_write_request", body, FALSE)
         /\ UNCHANGED transmit_callback_

\* UaLinkEndpoint::process_ack
ep_process_ack(ack_seq) ==
  /\ process_ack(ack_seq)
  /\ ep_out' = << >>
  /\ ep_ret' = EpRet("process_ack", ack_seq, FALSE)
  /\ UNCHANGED <<tx_last_seq_, transmit_callback_>>

\* Mutation of replay_from: a sequence number is allocated for the replay.
replay_from_allocating(seq) ==
  IF ~transmit_callback_
    THEN /\ ep_ret' = EpRet("replay_from", seq, TRUE)
         /\ ep_out' = << >>
         /\ UNCHANGED <<tx_last_seq_, transmit_callback_, buffer_, head_, tail_, count_, rb_ret>>
    ELSE /\ ep_out' = process_nak_span(seq)
         /\ rb_ret' = RbRet("process_nak", seq, Len(process_nak_span(seq)))
         /\ ep_ret' = EpRet("replay_from", seq, FALSE)
         /\ tx_last_seq_' = next_seq(tx_last_seq_)
         /\ UNCHANGED <<transmit_callback_, buffer_, head_, tail_, count_>>

\* UaLinkEndpoint::replay_from: every flit of the span process_nak returns goes to
\* the transmit callback
replay_from(seq) ==
  IF ~transmit_callback_
    THEN /\ ep_ret' = EpRet("replay_from", seq, TRUE)
         /\ ep_out' = << >>
         /\ UNCHANGED <<tx_last_seq_, transmit_callback_, buffer_, head_, tail_, count_, rb_ret>>
    ELSE /\ ep_out' = process_nak_span(seq)
         /\ rb_ret' = RbRet("process_nak", seq, Len(process_nak_span(seq)))
         /\ ep_ret' = EpRet("replay_from", seq, FALSE)
         /\ UNCHANGED <<tx_last_seq_, transmit_callback_, buffer_, head_, tail_, count_>>

\* contents of the TL flits sent
BodyInputs == {0, 1}

\* sequence numbers carried by the Ack and Replay Request flits received
EpSeqInputs == 0..(MaxEpSends + 1)

(***************************************************************************)
(* DlSerializer / DlDeserializer: TL flits packed into the five segments   *)
(* of a DL flit. The payload and a TL flit's data are kept byte by byte.   *)
(***************************************************************************)

\* kSegmentPayloadBytes and kSegmentPayloadOffsets, indexed from 0
kSegmentPayloadBytes == [s \in 0..4 |-> IF s < 3 THEN 128 ELSE IF s = 3 THEN 124 ELSE 120]
kSegmentPayloadOffsets == [s \in 0..4 |-> IF s < 4 THEN 128 * s ELSE 508]

\* TlFlit
TlFlit(data, message_field) == [data |-> data, message_field |-> message_field]

\* the 64 data bytes the tests' make_flit(seed, message) fills in
TlData(seed) == [k \in 0..(kTlFlitBytes - 1) |-> (seed + k) % 256]

\* segment_index_for_offset: 5 stands for the std::out_of_range it throws
segment_index_for_offset(offset) ==
  IF \E s \in 0..4 : /\ offset >= kSegmentPayloadOffsets[s]
                     /\ offset < kSegmentPayloadOffsets[s] + kSegmentPayloadBytes[s]
    THEN CHOOSE s \in 0..4 : /\ offset >= kSegmentPayloadOffsets[s]
                             /\ offset < kSegmentPayloadOffsets[s] + kSegmentPayloadBytes[s]
    ELSE 5

\* segment_slot_for_offset: 2 stands for the std::invalid_argument it throws
segment_slot_for_offset(offset, segment_index) ==
  IF offset - kSegmentPayloadOffsets[segment_index] = 0 THEN 0
  ELSE IF offset - kSegmentPayloadOffsets[segment_index] = kTlFlitBytes THEN 1
  ELSE 2

SegmentHeaderFields(f0, m0, f1, m1) ==
  [tl_flit0_present |-> f0, message0 |-> m0, tl_flit1_present |-> f1, message1 |-> m1,
   dl_alt_sector |-> FALSE]

\* encode_segment_header: tl_flit1:1, message1:2, tl_flit0:1, message0:2, reserved:1,
\* dl_alt_sector:1, most significant bit first
encode_segment_header(fields) ==
  (IF fields.tl_flit1_present THEN 128 ELSE 0) + fields.message1 * 32
    + (IF fields.tl_flit0_present THEN 16 ELSE 0) + fields.message0 * 4
    + (IF fields.dl_alt_sector THEN 1 ELSE 0)

\* decode_segment_header
decode_segment_header(value) ==
  [tl_flit1_present |-> (value \div 128) % 2 # 0,
   message1         |-> (value \div 32) % 4,
   tl_flit0_present |-> (value \div 16) % 2 # 0,
   message0         |-> (value \div 4) % 4,
   dl_alt_sector    |-> value % 2 # 0]

\* sum of payload[b] * (b + 1) over the n bytes from index lo, taken in halves
RECURSIVE weighted_sum(_, _, _)
weighted_sum(payload, lo, n) ==
  IF n = 0 THEN 0
  ELSE IF n = 1 THEN payload[lo] * (lo + 1)
  ELSE weighted_sum(payload, lo, n \div 2)
         + weighted_sum(payload, lo + n \div 2, n - n \div 2)

\* compute_crc32 over flit_header, segment_headers and payload, as its four bytes,
\* most significant first. The polynomial division is replaced by a weighted sum
\* that stays below 2^31, a function of the covered bytes, which is all that is
\* used of it; the sum starts at 0x612EFF3A, the CRC-32 of 636 zero bytes.
compute_crc32(header, segment_headers, payload) ==
  LET crc == 1630469946 + header * 7 + segment_headers[0] * 11 + segment_headers[1] * 13
               + segment_headers[2] * 17 + segment_headers[3] * 19
               + segment_headers[4] * 23 + weighted_sum(payload, 0, kDlPayloadBytes)
  IN <<(crc \div 16777216) % 256, (crc \div 65536) % 256, (crc \div 256) % 256, crc % 256>>

\* verify_crc32
verify_crc32(header, segment_headers, payload, expected_crc) ==
  compute_crc32(header, segment_headers, payload) = expected_crc

\* DlFlit with its segment headers, payload and CRC spelled out
PackedFlit(header, segment_headers, payload, crc) ==
  [flit_header |-> header, segment_headers |-> segment_headers,
   payload |-> payload, crc |-> crc]

\* DlFlit{}
EmptyPackedFlit ==
  PackedFlit(0, [s \in 0..4 |-> 0], [b \in 0..(kDlPayloadBytes - 1) |-> 0], <<0, 0, 0, 0>>)

Min(a, b) == IF a < b THEN a ELSE b

\* the number of TL flits DlSerializer::serialize packs
packed_count(tl_flits) == Min(Len(tl_flits), kDlPayloadBytes \div kTlFlitBytes)

\* does the packing loop of DlSerializer::serialize throw for one of its flits
serialize_throws(tl_flits) ==
  \E i \in 0..(packed_count(tl_flits) - 1) :
     \/ segment_index_for_offset(i * kTlFlitBytes) = 5
     \/ segment_slot_for_offset(i * kTlFlitBytes,
                                segment_index_for_offset(i * kTlFlitBytes)) = 2

\* the segment_fields DlSerializer::serialize builds for segment s
segment_fields(tl_flits, s) ==
  LET at(slot) == {i \in 0..(packed_count(tl_flits) - 1) :
                     /\ segment_index_for_offset(i * kTlFlitBytes) = s
                     /\ segment_slot_for_offset(i * kTlFlitBytes, s) = slot}
      msg(slot) == IF at(slot) = {} THEN 0
                   ELSE tl_flits[(CHOOSE i \in at(slot) : TRUE) + 1].message_field % 4
  IN SegmentHeaderFields(at(0) # {}, msg(0), at(1) # {}, msg(1))

\* DlSerializer::serialize: the flit and *flits_serialized, or the exception
serialize(tl_flits, header) ==
  IF serialize_throws(tl_flits)
    THEN [threw |-> TRUE, flit |-> EmptyPackedFlit, packed |-> 0]
    ELSE LET H == encode_explicit_flit_header(header)
             S == [s \in 0..4 |-> encode_segment_header(segment_fields(tl_flits, s))]
             P == [b \in 0..(kDlPayloadBytes - 1) |->
                     IF b \div kTlFlitBytes < packed_count(tl_flits)
                       THEN tl_flits[b \div kTlFlitBytes + 1].data[b % kTlFlitBytes]
                       ELSE 0]
         IN [threw |-> FALSE, flit |-> PackedFlit(H, S, P, compute_crc32(H, S, P)),
             packed |-> packed_count(tl_flits)]

\* the TL flits DlDeserializer::deserialize takes from segment s
segment_flits(flit, s) ==
  LET header == decode_segment_header(flit.segment_headers[s])
      data(offset) == [k \in 0..(kTlFlitBytes - 1) |-> flit.payload[offset + k]]
      first == IF header.tl_flit0_present /\ kSegmentPayloadBytes[s] >= kTlFlitBytes
                 THEN <<TlFlit(data(kSegmentPayloadOffsets[s]), header.message0)>>
                 ELSE << >>
      second == IF header.tl_flit1_present /\ kSegmentPayloadBytes[s] >= 2 * kTlFlitBytes
                  THEN <<TlFlit(data(kSegmentPayloadOffsets[s] + kTlFlitBytes),
                                header.message1)>>
                  ELSE << >>
  IN first \o second

\* DlDeserializer::deserialize
deserialize(flit) ==
  segment_flits(flit, 0) \o segment_flits(flit, 1) \o segment_flits(flit, 2)
    \o segment_flits(flit, 3) \o segment_flits(flit, 4)

\* std::optional<std::vector<TlFlit>>
NoTlFlits == [has_value |-> FALSE, tl_flits |-> << >>]
SomeTlFlits(tl_flits) == [has_value |-> TRUE, tl_flits |-> tl_flits]

\* Mutation of deserialize_with_crc_check: the flit is unpacked whatever its CRC.
deserialize_without_crc_check(flit) == SomeTlFlits(deserialize(flit))

\* DlDeserializer::deserialize_with_crc_check
deserialize_with_crc_check(flit) ==
  IF ~verify_crc32(flit.flit_header, flit.segment_headers, flit.payload, flit.crc)
    THEN NoTlFlits
    ELSE SomeTlFlits(deserialize(flit))

(***************************************************************************)
(* DlErrorInjector, with a policy that returns the same ErrorType on every *)
(* call                                                                    *)
(***************************************************************************)

ErrorType == {"kNone", "kCrcCorruption", "kPacketDrop", "kSequenceDup", "kSequenceSkip"}

\* DlErrorInjector::get_next_error
get_next_error(enabled, policy) == IF ~enabled THEN "kNone" ELSE policy

\* DlErrorInjector::should_drop_flit
should_drop_flit(enabled, policy) ==
  IF ~enabled THEN FALSE ELSE get_next_error(enabled, policy) = "kPacketDrop"

\* byte ^ 0xFF
flip_byte(byte) == 255 - byte

\* Mutation of inject_error: the flit comes back as it was.
inject_error_nothing(flit, error_type) == flit

\* DlErrorInjector::inject_error
inject_error(flit, error_type) ==
  IF error_type = "kCrcCorruption"
    THEN [flit EXCEPT !.crc = <<flip_byte(flit.crc[1]), flip_byte(flit.crc[2]),
                                flit.crc[3], flit.crc[4]>>]
    ELSE flit

\* the record kept of a DlSerializer call
PkSer(op, policy, result) ==
  [op |-> op, policy |-> policy, threw |-> result.threw, flit |-> result.flit,
   packed |-> result.packed]

\* DlSerializer::serialize_with_error_injection
serialize_with_error_injection(tl_flits, header, enabled, policy) ==
  IF should_drop_flit(enabled, policy)
    THEN [threw |-> FALSE, flit |-> EmptyPackedFlit, packed |-> 0]
    ELSE LET result == serialize(tl_flits, header)
             error == get_next_error(enabled, policy)
         IN IF ~result.threw /\ error # "kNone" /\ error # "kPacketDrop"
              THEN [result EXCEPT !.flit = inject_error(result.flit, error)]
              ELSE result

\* nothing serialized yet
PkFresh ==
  /\ pk_ser = PkSer("none", "kNone", [threw |-> FALSE, flit |-> EmptyPackedFlit, packed |-> 0])
  /\ pk_out = [op |-> "none", result |-> NoTlFlits]

PkInit ==
  /\ pk_in = << >>
  /\ pk_hdr = [op |-> 0, payload |-> TRUE, flit_seq_no |-> 1]
  /\ PkFresh

\* a call of DlSerializer::serialize on the inputs
Serialize ==
  /\ pk_ser' = PkSer("serialize", "kNone", serialize(pk_in, pk_hdr))
  /\ UNCHANGED <<pk_in, pk_hdr, pk_out>>

\* a call of DlSerializer::serialize_with_error_injection on the inputs, with an
\* enabled injector
SerializeWithErrorInjection(policy) ==
  /\ pk_ser' = PkSer("serialize_with_error_injection", policy,
                     serialize_with_error_injection(pk_in, pk_hdr, TRUE, policy))
  /\ UNCHANGED <<pk_in, pk_hdr, pk_out>>

\* a call of DlDeserializer::deserialize_with_crc_check on the flit serialized
DeserializeWithCrcCheck ==
  /\ pk_out' = [op |-> "deserialize_with_crc_check",
                result |-> deserialize_with_crc_check(pk_ser.flit)]
  /\ UNCHANGED <<pk_in, pk_hdr, pk_ser>>

(***************************************************************************)
(* UaLinkEndpoint: the receive path                                        *)
(***************************************************************************)

\* UaLinkEndpoint::Stats, the counters the receive path writes
Stats(rx_dl_flits, rx_crc_errors, rx_flits_with_pacing, rx_read_responses, rx_write_completions, tx_acks_sent, tx_replay_requests_sent, rx_acks_received, rx_replay_requests_received, retransmissions, replay_buffer_size) ==
  [rx_dl_flits |-> rx_dl_flits, rx_crc_errors |-> rx_crc_errors,
   rx_flits_with_pacing |-> rx_flits_with_pacing, rx_read_responses |-> rx_read_responses,
   rx_write_completions |-> rx_write_completions, tx_acks_sent |-> tx_acks_sent,
   tx_replay_requests_sent |-> tx_replay_requests_sent,
   rx_acks_received |-> rx_acks_received,
   rx_replay_requests_received |-> rx_replay_requests_received,
   retransmissions |-> retransmissions, replay_buffer_size |-> replay_buffer_size]

RcvRet(op, flit, threw) == [op |-> op, flit |-> flit, threw |-> threw]

\* the receive path of a constructed endpoint
RcvFresh ==
  /\ stats_ = Stats(0, 0, 0, 0, 0, 0, 0, 0, 0, 0, 0)
  /\ cmd_stats_ = [acks_received |-> 0, naks_received |-> 0]
  /\ delivered = << >>
  /\ rx_notified = << >>
  /\ rcv_ret = RcvRet("none", EmptyPackedFlit, FALSE)
  /\ rcv_count = 0

\* UaLinkEndpoint::UaLinkEndpoint with the default EndpointConfig
RcvInit ==
  /\ enable_crc_check_ = TRUE
  /\ enable_ack_nak_ = TRUE
  /\ rx_callback_ = FALSE
  /\ RcvFresh

\* verify_command_crc of dl_command.cpp
verify_command_crc(flit) ==
  flit.crc = compute_crc32(flit.flit_header, flit.segment_headers, flit.payload)

\* decode_explicit_flit_header
decode_explicit_flit_header(bytes) ==
  [op          |-> (bytes \div 2097152) % 8,
   payload     |-> ((bytes \div 1048576) % 2) # 0,
   flit_seq_no |-> (bytes \div 256) % 512]

\* TlDeserializer::decode_opcode
decode_opcode(data) == (data[0] \div 32) % 8

\* does handle_tl_flit take the TL flit to a completion callback
completes(tl_flit) ==
  decode_opcode(tl_flit.data) = kReadResponse \/ decode_opcode(tl_flit.data) = kWriteCompletion

\* the TL flits with the given opcode
with_opcode(tl_flits, opcode) ==
  SelectSeq(tl_flits, LAMBDA tl_flit : decode_opcode(tl_flit.data) = opcode)

\* does DlCommandProcessor::process_flit consume the flit
is_command(flit) ==
  LET header == deserialize_command_flit_header(flit.flit_header)
  IN ~header.payload /\ (header.op = kAck \/ header.op = kNak)

\* receive_flit for a command flit whose CRC DlCommandProcessor::process_flit has
\* verified: an Ack goes to UaLinkEndpoint::process_ack and a replay request to
\* UaLinkEndpoint::replay_from
receive_verified_command(flit) ==
  LET header == deserialize_command_flit_header(flit.flit_header)
      counted == [stats_ EXCEPT !.rx_dl_flits = @ + 1]
  IN IF header.op = kAck
       THEN /\ cmd_stats_' = [cmd_stats_ EXCEPT !.acks_received = @ + 1]
            /\ ep_process_ack(header.ack_req_seq)
            /\ stats_' = [counted EXCEPT !.replay_buffer_size = count_',
                                         !.rx_acks_received = @ + 1]
            /\ rcv_ret' = RcvRet("receive_flit", flit, FALSE)
       ELSE /\ cmd_stats_' = [cmd_stats_ EXCEPT !.naks_received = @ + 1]
            /\ replay_from(header.ack_req_seq)
            /\ stats_' = IF ep_ret'.threw THEN counted
                         ELSE [counted EXCEPT !.rx_replay_requests_received = @ + 1,
                                              !.retransmissions = @ + 1]
            /\ rcv_ret' = RcvRet("receive_flit", flit, ep_ret'.threw)

\* receive_flit for a flit DlCommandProcessor::process_flit consumes: a command
\* whose CRC fails is dropped
receive_command(flit) ==
  IF ~verify_command_crc(flit)
    THEN /\ stats_' = [stats_ EXCEPT !.rx_dl_flits = @ + 1]
         /\ rcv_ret' = RcvRet("receive_flit", flit, FALSE)
         /\ ep_out' = << >>
         /\ UNCHANGED <<cmd_stats_, ep_ret, buffer_, head_, tail_, count_, rb_ret>>
    ELSE receive_verified_command(flit)

\* receive_flit for a flit that is not a command, from the CRC check on
receive_payload(flit) ==
  LET received_seq == IF enable_ack_nak_
                        THEN decode_explicit_flit_header(flit.flit_header).flit_seq_no
                        ELSE 0
      checked == deserialize_with_crc_check(flit)
      counted == [stats_ EXCEPT !.rx_dl_flits = @ + 1]
  IN /\ rcv_ret' = RcvRet("receive_flit", flit, FALSE)
     /\ rx_notified' = IF rx_callback_
                         THEN Append(rx_notified, ~enable_crc_check_ \/ checked.has_value)
                         ELSE rx_notified
     /\ IF enable_crc_check_ /\ ~checked.has_value
          THEN /\ stats_' = [counted EXCEPT !.rx_crc_errors = @ + 1]
               /\ ep_out' = << >>
               /\ UNCHANGED <<delivered, rxVars>>
          ELSE LET tl_flits == IF enable_crc_check_ THEN checked.tl_flits
                               ELSE deserialize(flit)
                   paced == IF rx_callback_
                              THEN [counted EXCEPT !.rx_flits_with_pacing = @ + 1]
                              ELSE counted
                   handled(stats) ==
                     [stats EXCEPT
                        !.rx_read_responses = @ + Len(with_opcode(tl_flits, kReadResponse)),
                        !.rx_write_completions =
                           @ + Len(with_opcode(tl_flits, kWriteCompletion))]
               IN /\ delivered' = delivered \o SelectSeq(tl_flits, completes)
                  /\ IF enable_ack_nak_ /\ transmit_callback_
                       THEN /\ process_received_flit(received_seq, tx_last_seq_ % 8)
                            /\ ep_out' = IF rx_ret'.flit.has_value
                                           THEN <<rx_ret'.flit.flit>> ELSE << >>
                            /\ stats_' =
                                 IF ~rx_ret'.flit.has_value THEN handled(paced)
                                 ELSE IF deserialize_command_flit_header(
                                           rx_ret'.flit.flit.flit_header).op = kAck
                                   THEN handled([paced EXCEPT !.tx_acks_sent = @ + 1])
                                   ELSE handled([paced EXCEPT
                                                   !.tx_replay_requests_sent = @ + 1])
                       ELSE /\ ep_out' = << >>
                            /\ stats_' = handled(paced)
                            /\ UNCHANGED rxVars
     /\ UNCHANGED <<cmd_stats_, ep_ret, buffer_, head_, tail_, count_, rb_ret>>

\* UaLinkEndpoint::receive_flit
receive_flit(flit) ==
  /\ IF enable_ack_nak_ /\ is_command(flit)
       THEN /\ receive_command(flit)
            /\ UNCHANGED <<delivered, rx_notified, rxVars>>
       ELSE receive_payload(flit)
  /\ rcv_count' = rcv_count + 1
  /\ UNCHANGED <<enable_crc_check_, enable_ack_nak_, rx_callback_, tx_last_seq_,
                 transmit_callback_>>

(***************************************************************************)
(* DlMessageQueue. A message is its type, its payload DWords (UART Stream   *)
(* Transport only) and the number of the enqueue call that brought it; a    *)
(* returned DWord is recorded with the message it serializes and its index  *)
(* in that message's serialization.                                         *)
(***************************************************************************)

\* DlMessage
DlMessage(type, payload_dwords, id) ==
  [type |-> type, payload_dwords |-> payload_dwords, id |-> id]

\* DlMessageQueue::get_message_group
get_message_group(msg) ==
  IF msg.type \in {"NoOpMessage", "TlRateNotification", "DeviceIdMessage", "PortIdMessage"}
    THEN "kBasic"
  ELSE IF msg.type = "ChannelNegotiation" THEN "kControl"
  ELSE IF msg.type \in {"UartStreamResetRequest", "UartStreamResetResponse",
                        "UartStreamTransportMessage", "UartStreamCreditUpdate"}
    THEN "kUart"
  ELSE "kNone"

\* store_be32
store_be32(value) ==
  <<(value \div 16777216) % 256, (value \div 65536) % 256, (value \div 256) % 256,
    value % 256>>

\* load_be32, and the shifts of pop_next_dword that rebuild a payload DWord's value
load_be32(bytes) == bytes[1] * 16777216 + bytes[2] * 65536 + bytes[3] * 256 + bytes[4]

\* does serialize_uart_stream_transport_message throw for the message
transport_throws(msg) == Len(msg.payload_dwords) = 0 \/ Len(msg.payload_dwords) > 32

\* DlMessageQueue::serialize_message: DWord 0 is the message's header, of which the
\* length field of a UART Stream Transport (bits 31:27) is kept, and a UART Stream
\* Transport is followed by its payload DWords as big-endian bytes
serialize_message(msg) ==
  IF msg.type = "UartStreamTransportMessage"
    THEN <<[header |-> TRUE,
            bytes |-> store_be32((Len(msg.payload_dwords) - 1) * 134217728)]>>
           \o [i \in 1..Len(msg.payload_dwords) |->
                 [header |-> FALSE, bytes |-> store_be32(msg.payload_dwords[i])]]
    ELSE <<[header |-> TRUE, bytes |-> store_be32(0)]>>

\* the queue of a group
queue_of(group) ==
  IF group = "kBasic" THEN basic_queue_
  ELSE IF group = "kControl" THEN control_queue_
  ELSE IF group = "kUart" THEN uart_queue_
  ELSE << >>

group_order == <<"kBasic", "kControl", "kUart">>

Groups == {"kBasic", "kControl", "kUart"}

\* Mutation of start_index_after: the search starts at the group last served.
start_index_at(i) == i

\* the start_index select_next_group computes from the index of the group last served
start_index_after(i) == (i + 1) % 3

\* DlMessageQueue::select_next_group, given uart_transport_state_.in_progress
select_next_group(in_progress) ==
  IF in_progress THEN "kUart"
  ELSE LET start_index ==
             IF last_served_group_ = "kNone" THEN 0
             ELSE start_index_after(
                    (CHOOSE i \in 1..3 : group_order[i] = last_served_group_) - 1)
           has_messages(i) == queue_of(group_order[((start_index + i) % 3) + 1]) # << >>
       IN IF \E i \in 0..2 : has_messages(i)
            THEN group_order[((start_index
                                + CHOOSE i \in 0..2 :
                                    /\ has_messages(i)
                                    /\ \A j \in 0..(i - 1) : ~has_messages(j)) % 3) + 1]
            ELSE "kNone"

\* Mutation of queue_front: the message enqueued last is taken.
queue_back(queue) ==
  [msg |-> queue[Len(queue)], rest |-> SubSeq(queue, 1, Len(queue) - 1)]

\* front() and pop() of a std::queue in pop_from_group
queue_front(queue) == [msg |-> Head(queue), rest |-> Tail(queue)]

\* Mutation of next_remaining: the last remaining payload DWord is sent.
last_remaining(remaining_dwords) ==
  [value |-> remaining_dwords[Len(remaining_dwords)],
   rest |-> SubSeq(remaining_dwords, 1, Len(remaining_dwords) - 1)]

\* front() and erase(begin()) of remaining_dwords in pop_next_dword
next_remaining(remaining_dwords) ==
  [value |-> Head(remaining_dwords), rest |-> Tail(remaining_dwords)]

\* DlMessageQueue::Stats
MqStats(basic_enqueued, control_enqueued, uart_enqueued, basic_sent, control_sent, uart_sent, uart_multi_flit_count) ==
  [basic_enqueued |-> basic_enqueued, control_enqueued |-> control_enqueued,
   uart_enqueued |-> uart_enqueued, basic_sent |-> basic_sent,
   control_sent |-> control_sent, uart_sent |-> uart_sent,
   uart_multi_flit_count |-> uart_multi_flit_count]

\* the record kept of a DlMessageQueue call; group is the group pop_next_dword
\* selected, kNone when it selected none
MqRet(op, has_value, dword, group, threw) ==
  [op |-> op, has_value |-> has_value, dword |-> dword, group |-> group, threw |-> threw]

NoDword == [header |-> FALSE, bytes |-> <<0, 0, 0, 0>>]

NoMessage == DlMessage("none", << >>, 0)

NoWait == [g \in Groups |-> [h \in Groups |-> 0]]

MqInit ==
  /\ basic_queue_ = << >>
  /\ control_queue_ = << >>
  /\ uart_queue_ = << >>
  /\ last_served_group_ = "kNone"
  /\ uart_transport_state_ = [remaining_dwords |-> << >>, in_progress |-> FALSE]
  /\ mq_stats_ = MqStats(0, 0, 0, 0, 0, 0, 0)
  /\ mq_ret = MqRet("none", FALSE, NoDword, "kNone", FALSE)
  /\ mq_enqueued = 0
  /\ mq_in = << >>
  /\ mq_flight = [msg |-> NoMessage, sent |-> 0]
  /\ mq_out = << >>
  /\ mq_wait = NoWait

\* DlMessageQueue::enqueue
enqueue(msg) ==
  LET group == get_message_group(msg)
  IN /\ basic_queue_' = IF group = "kBasic" THEN Append(basic_queue_, msg)
                        ELSE basic_queue_
     /\ control_queue_' = IF group = "kControl" THEN Append(control_queue_, msg)
                          ELSE control_queue_
     /\ uart_queue_' = IF group = "kUart" THEN Append(uart_queue_, msg) ELSE uart_queue_
     /\ mq_stats_' =
          IF group = "kBasic" THEN [mq_stats_ EXCEPT !.basic_enqueued = @ + 1]
          ELSE IF group = "kControl" THEN [mq_stats_ EXCEPT !.control_enqueued = @ + 1]
          ELSE IF group = "kUart" THEN [mq_stats_ EXCEPT !.uart_enqueued = @ + 1]
          ELSE mq_stats_
     /\ mq_ret' = MqRet("enqueue", FALSE, NoDword, group, group = "kNone")
     /\ mq_enqueued' = mq_enqueued + 1
     /\ mq_in' = IF group = "kNone" THEN mq_in ELSE Append(mq_in, msg)
     /\ UNCHANGED <<last_served_group_, uart_transport_state_, mq_flight, mq_out, mq_wait>>

\* pop_next_dword, step 1: the next payload DWord of the transport in progress
pop_remaining ==
  LET next == next_remaining(uart_transport_state_.remaining_dwords)
      dword == [header |-> FALSE, bytes |-> store_be32(next.value)]
  IN /\ uart_transport_state_' = [remaining_dwords |-> next.rest,
                                  in_progress |-> next.rest # << >>]
     /\ mq_ret' = MqRet("pop_next_dword", TRUE, dword, "kUart", FALSE)
     /\ mq_out' = Append(mq_out, [msg |-> mq_flight.msg, index |-> mq_flight.sent + 1,
                                  dword |-> dword, supplied |-> FALSE,
                                  pending |-> {}])
     /\ mq_flight' = [mq_flight EXCEPT !.sent = @ + 1]
     /\ UNCHANGED <<basic_queue_, control_queue_, uart_queue_, last_served_group_,
                    mq_stats_, mq_wait>>

\* is a single-DWord message at the front of every group's queue, and no UART Stream
\* Transport in any queue
all_supplied ==
  /\ \A group \in Groups : queue_of(group) # << >>
  /\ \A n \in 1..Len(uart_queue_) : uart_queue_[n].type # "UartStreamTransportMessage"

\* pop_next_dword, steps 2 to 7: a message of the selected group is popped and
\* serialized, its payload DWords are kept and its first DWord returned
pop_message(group) ==
  LET front == queue_front(queue_of(group))
      msg == front.msg
      throws == msg.type = "UartStreamTransportMessage" /\ transport_throws(msg)
      dwords == serialize_message(msg)
      pending == {g \in Groups : g # group /\ queue_of(g) # << >>}
  IN /\ basic_queue_' = IF group = "kBasic" THEN front.rest ELSE basic_queue_
     /\ control_queue_' = IF group = "kControl" THEN front.rest ELSE control_queue_
     /\ uart_queue_' = IF group = "kUart" THEN front.rest ELSE uart_queue_
     /\ IF throws
          THEN /\ mq_ret' = MqRet("pop_next_dword", FALSE, NoDword, group, TRUE)
               /\ mq_wait' = [mq_wait EXCEPT ![group] = NoWait[group]]
               /\ uart_transport_state_' =
                    [uart_transport_state_ EXCEPT !.in_progress = FALSE]
               /\ UNCHANGED <<last_served_group_, mq_stats_, mq_flight, mq_out>>
          ELSE /\ uart_transport_state_' =
                    IF Len(dwords) > 1
                      THEN [remaining_dwords |->
                              uart_transport_state_.remaining_dwords
                                \o [i \in 1..(Len(dwords) - 1) |->
                                      load_be32(dwords[i + 1].bytes)],
                            in_progress |-> TRUE]
                      ELSE [uart_transport_state_ EXCEPT !.in_progress = FALSE]
               /\ mq_stats_' =
                    LET stats == IF Len(dwords) > 1
                                   THEN [mq_stats_ EXCEPT !.uart_multi_flit_count = @ + 1]
                                   ELSE mq_stats_
                    IN IF group = "kBasic" THEN [stats EXCEPT !.basic_sent = @ + 1]
                       ELSE IF group = "kControl" THEN [stats EXCEPT !.control_sent = @ + 1]
                       ELSE [stats EXCEPT !.uart_sent = @ + 1]
               /\ last_served_group_' = group
               /\ mq_ret' = MqRet("pop_next_dword", TRUE, dwords[1], group, FALSE)
               /\ mq_flight' = [msg |-> msg, sent |-> 0]
               /\ mq_out' = Append(mq_out, [msg |-> msg, index |-> 0, dword |-> dwords[1],
                                            supplied |-> all_supplied,
                                            pending |-> pending])
               /\ mq_wait' = [g \in Groups |->
                                IF g = group THEN NoWait[g]
                                ELSE IF g \in pending
                                  THEN [mq_wait[g] EXCEPT ![group] = @ + 1]
                                  ELSE mq_wait[g]]

\* DlMessageQueue::has_pending_messages without the transport in progress
has_pending_messages_queued ==
  basic_queue_ # << >> \/ control_queue_ # << >> \/ uart_queue_ # << >>

\* DlMessageQueue::has_pending_messages
has_pending_messages ==
  \/ basic_queue_ # << >> \/ control_queue_ # << >> \/ uart_queue_ # << >>
  \/ uart_transport_state_.in_progress

\* DlMessageQueue::pop_next_dword; past step 1 in_progress is false, cleared there if
\* it was set with nothing remaining
pop_next_dword ==
  /\ IF uart_transport_state_.in_progress /\ uart_transport_state_.remaining_dwords # << >>
       THEN pop_remaining
       ELSE LET group == select_next_group(FALSE)
            IN IF group = "kNone"
                 THEN /\ mq_ret' = MqRet("pop_next_dword", FALSE, NoDword, "kNone", FALSE)
                      /\ uart_transport_state_' =
                           [uart_transport_state_ EXCEPT !.in_progress = FALSE]
                      /\ UNCHANGED <<basic_queue_, control_queue_, uart_queue_,
                                     last_served_group_, mq_stats_, mq_flight, mq_out,
                                     mq_wait>>
                 ELSE pop_message(group)
  /\ UNCHANGED <<mq_enqueued, mq_in>>

(***************************************************************************)
(* DlMessageProcessor (src/src/dl_message_processor.cpp) and the           *)
(* DL message codec it calls (src/src/dl_messages.cpp).  A DWord is its    *)
(* four bytes <<byte 0, byte 1, byte 2, byte 3>>, byte 0 holding bits      *)
(* 31:24 of the message formats.                                           *)
(***************************************************************************)

\* DlMessageClass::kControl and DlControlMessageType
kControl == 8
kChannelOnlineOfflineNegotiation == 4

\* ChannelState
ChannelState == {"kOffline", "kRequestSent", "kOnline", "kOfflineRequested"}

\* struct ChannelNegotiation with make_common(DlControlMessageType)
ChannelNegotiation(channel_response, channel_command, channel_target) ==
  [channel_response |-> channel_response, channel_command |-> channel_command,
   channel_target |-> channel_target,
   common |-> [mtype |-> kChannelOnlineOfflineNegotiation, mclass |-> kControl]]

fits_in_bits(value, bits) == value <= 2 ^ bits - 1

\* does serialize_channel_negotiation throw for the message
serialize_channel_negotiation_throws(msg) ==
  \/ ~fits_in_bits(msg.common.mtype, 3) \/ ~fits_in_bits(msg.common.mclass, 4)
  \/ ~fits_in_bits(msg.channel_response, 4) \/ ~fits_in_bits(msg.channel_command, 4)
  \/ ~fits_in_bits(msg.channel_target, 4)

\* serialize_channel_negotiation: the fields at the bit positions of
\* kChannelNegotiationFormat (reserved 31:28, channel_response 27:24,
\* channel_command 23:20, channel_target 19:16, reserved 15:9, mtype 8:6,
\* mclass 5:2, reserved 1, compressed 0)
serialize_channel_negotiation(msg) ==
  store_be32(msg.channel_response * 16777216 + msg.channel_command * 1048576
               + msg.channel_target * 65536 + msg.common.mtype * 64 + msg.common.mclass * 4)

\* the compressed field (bit 0) of every DL message format
compressed_bit(bytes) == bytes[4] % 2

\* deserialize_channel_negotiation: nullopt for a compressed message, else the
\* fields read back from the bit positions of kChannelNegotiationFormat
deserialize_channel_negotiation(bytes) ==
  IF compressed_bit(bytes) # 0
    THEN [has_value |-> FALSE, msg |-> ChannelNegotiation(0, 0, 0)]
    ELSE [has_value |-> TRUE,
          msg |-> [channel_response |-> bytes[1] % 16,
                   channel_command |-> bytes[2] \div 16,
                   channel_target |-> bytes[2] % 16,
                   common |-> [mtype |-> (bytes[3] % 2) * 4 + bytes[4] \div 64,
                               mclass |-> (bytes[4] \div 4) % 16]]]

\* DlMessageClass and the message types of each class
kBasic == 0
kUart == 1
kNoOp == 0
kTlRateNotification == 4
kDeviceIdRequest == 5
kPortNumberRequestResponse == 6
kStreamCreditUpdate == 1
kStreamResetRequest == 6
kStreamResetResponse == 7

\* make_common
make_common(mclass, mtype) == [mtype |-> mtype, mclass |-> mclass]

\* the DL message formats: the widths of the fields, from bit 31 down to bit 0
kUartStreamResetRequestFormat == <<19, 1, 3, 3, 4, 1, 1>>
kUartStreamResetResponseFormat == <<16, 3, 1, 3, 3, 4, 1, 1>>
kUartStreamCreditUpdateFormat == <<12, 8, 3, 3, 4, 1, 1>>
kTlRateNotificationFormat == <<16, 3, 1, 3, 3, 4, 1, 1>>
kDeviceIdFormat == <<1, 2, 3, 10, 3, 1, 3, 3, 4, 1, 1>>
kPortIdFormat == <<1, 3, 12, 3, 1, 3, 3, 4, 1, 1>>
kNoOpMessageFormat == <<23, 3, 4, 1, 1>>

\* the low `width` bits of a value, most significant first
field_bits(value, width) == [i \in 1..width |-> (value \div 2 ^ (width - i)) % 2]

RECURSIVE format_bits(_, _, _)
format_bits(format, values, i) ==
  IF i > Len(format) THEN << >>
  ELSE field_bits(values[i], format[i]) \o format_bits(format, values, i + 1)

\* NetworkBitWriter::serialize into a DWord: the fields in the order of the format,
\* most significant bit first, byte 0 first
write_fields(format, values) ==
  LET bits == format_bits(format, values, 1)
  IN  [b \in 1..4 |->
         bits[8 * b - 7] * 128 + bits[8 * b - 6] * 64 + bits[8 * b - 5] * 32
           + bits[8 * b - 4] * 16 + bits[8 * b - 3] * 8 + bits[8 * b - 2] * 4
           + bits[8 * b - 1] * 2 + bits[8 * b]]

\* bit k (1 is bit 31) of a DWord
dword_bit(bytes, k) == (bytes[(k + 7) \div 8] \div 2 ^ ((32 - k) % 8)) % 2

RECURSIVE bits_value(_, _, _)
bits_value(bytes, from, width) ==
  IF width = 0 THEN 0
  ELSE 2 * bits_value(bytes, from, width - 1) + dword_bit(bytes, from + width - 1)

RECURSIVE field_offset(_, _)
field_offset(format, i) == IF i = 1 THEN 0 ELSE field_offset(format, i - 1) + format[i - 1]

\* NetworkBitReader::deserialize_into from a DWord: the value of each field
read_fields(format, bytes) ==
  [i \in 1..Len(format) |-> bits_value(bytes, field_offset(format, i) + 1, format[i])]

\* the message structs, each with the common given by make_common for its type
NoOpMessage == [common |-> make_common(kBasic, kNoOp)]

TlRateNotification(rate, ack) ==
  [rate |-> rate, ack |-> ack, common |-> make_common(kBasic, kTlRateNotification)]

DeviceIdMessage(valid, type, id, ack) ==
  [valid |-> valid, type |-> type, id |-> id, ack |-> ack,
   common |-> make_common(kBasic, kDeviceIdRequest)]

PortIdMessage(valid, port_number, ack) ==
  [valid |-> valid, port_number |-> port_number, ack |-> ack,
   common |-> make_common(kBasic, kPortNumberRequestResponse)]

UartStreamResetRequest(all_streams, stream_id) ==
  [all_streams |-> all_streams, stream_id |-> stream_id,
   common |-> make_common(kUart, kStreamResetRequest)]

UartStreamResetResponse(status, all_streams, stream_id) ==
  [status |-> status, all_streams |-> all_streams, stream_id |-> stream_id,
   common |-> make_common(kUart, kStreamResetResponse)]

UartStreamCreditUpdate(data_fc_seq, stream_id) ==
  [data_fc_seq |-> data_fc_seq, stream_id |-> stream_id,
   common |-> make_common(kUart, kStreamCreditUpdate)]

\* bool ? 1U : 0U
bool_bit(flag) == IF flag THEN 1 ELSE 0

\* the serializers of the single-DWord messages, for messages whose fields are in
\* range (the others throw)
serialize_no_op_message(msg) ==
  write_fields(kNoOpMessageFormat, <<0, msg.common.mtype, msg.common.mclass, 0, 0>>)

serialize_tl_rate_notification(msg) ==
  write_fields(kTlRateNotificationFormat,
               <<msg.rate, 0, bool_bit(msg.ack), 0, msg.common.mtype, msg.common.mclass, 0, 0>>)

serialize_device_id_message(msg) ==
  write_fields(kDeviceIdFormat,
               <<bool_bit(msg.valid), msg.type, 0, msg.id, 0, bool_bit(msg.ack), 0,
                 msg.common.mtype, msg.common.mclass, 0, 0>>)

serialize_port_id_message(msg) ==
  write_fields(kPortIdFormat,
               <<bool_bit(msg.valid), 0, msg.port_number, 0, bool_bit(msg.ack), 0,
                 msg.common.mtype, msg.common.mclass, 0, 0>>)

serialize_uart_stream_reset_request(msg) ==
  write_fields(kUartStreamResetRequestFormat,
               <<0, bool_bit(msg.all_streams), msg.stream_id, msg.common.mtype,
                 msg.common.mclass, 0, 0>>)

serialize_uart_stream_reset_response(msg) ==
  write_fields(kUartStreamResetResponseFormat,
               <<0, msg.status, bool_bit(msg.all_streams), msg.stream_id, msg.common.mtype,
                 msg.common.mclass, 0, 0>>)

serialize_uart_stream_credit_update(msg) ==
  write_fields(kUartStreamCreditUpdateFormat,
               <<msg.data_fc_seq, 0, msg.stream_id, msg.common.mtype, msg.common.mclass, 0, 0>>)

\* std::optional of a message
Optional(has_value, msg) == [has_value |-> has_value, msg |-> msg]

\* the deserializers of the single-DWord messages: nullopt for a compressed message,
\* else the fields read by the format
deserialize_no_op_message(bytes) ==
  LET f == read_fields(kNoOpMessageFormat, bytes)
  IN  Optional(f[5] = 0, [common |-> make_common(f[3], f[2])])

deserialize_tl_rate_notification(bytes) ==
  LET f == read_fields(kTlRateNotificationFormat, bytes)
  IN  Optional(f[8] = 0, [rate |-> f[1], ack |-> f[3] # 0, common |-> make_common(f[6], f[5])])

deserialize_device_id_message(bytes) ==
  LET f == read_fields(kDeviceIdFormat, bytes)
  IN  Optional(f[11] = 0,
               [valid |-> f[1] # 0, type |-> f[2], id |-> f[4], ack |-> f[6] # 0,
                common |-> make_common(f[9], f[8])])

deserialize_port_id_message(bytes) ==
  LET f == read_fields(kPortIdFormat, bytes)
  IN  Optional(f[10] = 0,
               [valid |-> f[1] # 0, port_number |-> f[3], ack |-> f[5] # 0,
                common |-> make_common(f[8], f[7])])

deserialize_uart_stream_reset_request(bytes) ==
  LET f == read_fields(kUartStreamResetRequestFormat, bytes)
  IN  Optional(f[7] = 0,
               [all_streams |-> f[2] # 0, stream_id |-> f[3], common |-> make_common(f[5], f[4])])

deserialize_uart_stream_reset_response(bytes) ==
  LET f == read_fields(kUartStreamResetResponseFormat, bytes)
  IN  Optional(f[8] = 0,
               [status |-> f[2], all_streams |-> f[3] # 0, stream_id |-> f[4],
                common |-> make_common(f[6], f[5])])

deserialize_uart_stream_credit_update(bytes) ==
  LET f == read_fields(kUartStreamCreditUpdateFormat, bytes)
  IN  Optional(f[7] = 0,
               [data_fc_seq |-> f[1], stream_id |-> f[3], common |-> make_common(f[5], f[4])])

\* struct BasicMessageTimeout
BasicMessageTimeout(request_time_us, sequence_id, waiting_for_response) ==
  [request_time_us |-> request_time_us, sequence_id |-> sequence_id,
   waiting_for_response |-> waiting_for_response]

\* struct ChannelNegotiationState
ChannelNegotiationState(state, last_request_time_us, pending_command) ==
  [state |-> state, last_request_time_us |-> last_request_time_us,
   pending_command |-> pending_command]

\* struct UartStreamReassembly
UartStreamReassembly(stream_id, accumulated_dwords, in_progress) ==
  [stream_id |-> stream_id, accumulated_dwords |-> accumulated_dwords,
   in_progress |-> in_progress]

\* DlMessageProcessor::Stats
MpStats(basic_received, control_received, uart_received, deserialization_errors, timeouts) ==
  [basic_received |-> basic_received, control_received |-> control_received,
   uart_received |-> uart_received, deserialization_errors |-> deserialization_errors,
   timeouts |-> timeouts]

\* a callback invocation: the callback member and the message passed to it
Called(callback, msg) == [callback |-> callback, msg |-> msg]

NoCall == Called("none", [common |-> make_common(0, 0)])

\* `if (msg_opt.has_value() && callback) callback(msg_opt.value())`
invoke(callback, msg_opt) ==
  IF msg_opt.has_value /\ callback \in callbacks_ THEN Called(callback, msg_opt.msg) ELSE NoCall

\* what a dispatch_* call leaves behind: whether it threw, the members it wrote and
\* the callback it invoked
Dispatched(threw, basic_timeout, channel_state, uart_reassembly, called) ==
  [threw |-> threw, basic_timeout |-> basic_timeout, channel_state |-> channel_state,
   uart_reassembly |-> uart_reassembly, called |-> called]

\* the mtype the dispatchers read from the DWord: (dword[0] >> 3) & 0x7
dispatch_mtype(dword) == (dword[1] \div 8) % 8

\* DlMessageProcessor::cancel_basic_timeout on a BasicMessageTimeout
cancelled(timeout) == [timeout EXCEPT !.waiting_for_response = FALSE]

\* the condition under which a handled TL Rate Notification cancels the timeout
tl_rate_cancels(msg) == basic_timeout_.waiting_for_response

\* DlMessageProcessor::dispatch_basic_message
dispatch_basic_message(dword) ==
  LET mtype == dispatch_mtype(dword)
      response(called, cancels) ==
        Dispatched(FALSE,
                   IF called.callback # "none" /\ cancels
                     THEN cancelled(basic_timeout_) ELSE basic_timeout_,
                   channel_state_, uart_reassembly_, called)
      tl_rate == deserialize_tl_rate_notification(dword)
      device_id == deserialize_device_id_message(dword)
      port_id == deserialize_port_id_message(dword)
  IN  IF mtype = 0
        THEN response(invoke("noop_callback_", deserialize_no_op_message(dword)), FALSE)
      ELSE IF mtype = 4
        THEN response(invoke("tl_rate_callback_", tl_rate), tl_rate_cancels(tl_rate.msg))
      ELSE IF mtype = 5
        THEN response(invoke("device_id_callback_", device_id),
                      device_id.msg.ack /\ basic_timeout_.waiting_for_response)
      ELSE IF mtype = 6
        THEN response(invoke("port_id_callback_", port_id),
                      port_id.msg.ack /\ basic_timeout_.waiting_for_response)
      ELSE Dispatched(TRUE, basic_timeout_, channel_state_, uart_reassembly_, NoCall)

\* the switch of dispatch_control_message over the received command
next_channel_state(state, command) ==
  IF command = 0 /\ state = "kOffline" THEN "kRequestSent"
  ELSE IF command = 1 /\ state = "kRequestSent" THEN "kOnline"
  ELSE IF command = 2 /\ state = "kRequestSent" THEN "kOffline"
  ELSE state

\* the condition under which dispatch_control_message invokes the callback and
\* runs the state machine
control_handled(msg_opt) == msg_opt.has_value /\ "control_callback_" \in callbacks_

\* DlMessageProcessor::dispatch_control_message
dispatch_control_message(dword) ==
  LET mtype == dispatch_mtype(dword)
      msg_opt == deserialize_channel_negotiation(dword)
  IN  IF mtype = 4
        THEN IF control_handled(msg_opt)
               THEN Dispatched(FALSE, basic_timeout_,
                               [channel_state_ EXCEPT !.state =
                                  next_channel_state(@, msg_opt.msg.channel_command)],
                               uart_reassembly_, Called("control_callback_", msg_opt.msg))
               ELSE Dispatched(FALSE, basic_timeout_, channel_state_, uart_reassembly_, NoCall)
        ELSE Dispatched(TRUE, basic_timeout_, channel_state_, uart_reassembly_, NoCall)

\* DlMessageProcessor::dispatch_uart_message; accumulated_dwords is never appended
\* to, so the completion at the end, which needs a non-empty accumulation, never
\* fires its callback
dispatch_uart_message(dword) ==
  LET mtype == dispatch_mtype(dword)
      called == IF mtype = 0
                  THEN invoke("uart_reset_req_callback_",
                              deserialize_uart_stream_reset_request(dword))
                ELSE IF mtype = 1
                  THEN invoke("uart_reset_rsp_callback_",
                              deserialize_uart_stream_reset_response(dword))
                ELSE invoke("uart_credit_callback_",
                            deserialize_uart_stream_credit_update(dword))
      completes_transport ==
        /\ uart_reassembly_.in_progress
        /\ uart_reassembly_.accumulated_dwords # << >>
        /\ "uart_transport_callback_" \in callbacks_
  IN  IF mtype = 2
        THEN Dispatched(FALSE, basic_timeout_, channel_state_,
                        IF ~uart_reassembly_.in_progress
                          THEN UartStreamReassembly(dword[1] % 8, << >>, TRUE)
                          ELSE uart_reassembly_,
                        NoCall)
      ELSE IF mtype \in {0, 1, 3}
        THEN Dispatched(FALSE, basic_timeout_, channel_state_,
                        IF completes_transport
                          THEN [uart_reassembly_ EXCEPT !.in_progress = FALSE,
                                                        !.accumulated_dwords = << >>]
                          ELSE uart_reassembly_,
                        IF completes_transport
                          THEN Called("uart_transport_callback_",
                                      [stream_id |-> uart_reassembly_.stream_id,
                                       payload_dwords |-> uart_reassembly_.accumulated_dwords])
                          ELSE called)
      ELSE Dispatched(TRUE, basic_timeout_, channel_state_, uart_reassembly_, NoCall)

\* the members a call can write, as the call found them
MpSnapshot ==
  [basic_timeout |-> basic_timeout_, channel_state |-> channel_state_,
   uart_reassembly |-> uart_reassembly_, stats |-> mp_stats_]

\* the last DlMessageProcessor call: its arguments (a DWord, a state or a sequence
\* id; the time; the timeout), what it returned, the callback it invoked and the
\* members as it found them
MpRet(op, arg, now, timeout_us, result, called, before) ==
  [op |-> op, arg |-> arg, now |-> now, timeout_us |-> timeout_us, result |-> result,
   called |-> called, before |-> before]

MpInit ==
  /\ callbacks_ = {}
  /\ basic_timeout_ = BasicMessageTimeout(0, 0, FALSE)
  /\ channel_state_ = ChannelNegotiationState("kOffline", 0, 0)
  /\ uart_reassembly_ = UartStreamReassembly(0, << >>, FALSE)
  /\ mp_stats_ = MpStats(0, 0, 0, 0, 0)
  /\ mp_ret = MpRet("none", 0, 0, 0, "none", NoCall,
                    [basic_timeout |-> BasicMessageTimeout(0, 0, FALSE),
                     channel_state |-> ChannelNegotiationState("kOffline", 0, 0),
                     uart_reassembly |-> UartStreamReassembly(0, << >>, FALSE),
                     stats |-> MpStats(0, 0, 0, 0, 0)])
  /\ mp_calls = 0
  /\ mp_expired = 0
  /\ mp_fed = << >>

\* DlMessageProcessor::set_noop_callback .. set_uart_credit_callback
set_callback(callback) ==
  /\ callbacks_' = callbacks_ \cup {callback}
  /\ UNCHANGED <<basic_timeout_, channel_state_, uart_reassembly_, mp_stats_, mp_ret,
                 mp_calls, mp_expired, mp_fed>>

\* DlMessageProcessor::process_dword
process_dword(dword, current_time_us) ==
  LET mclass == (dword[1] \div 64) % 4
      done == IF mclass = 0 THEN dispatch_basic_message(dword)
              ELSE IF mclass = 1 THEN dispatch_control_message(dword)
              ELSE IF mclass = 2 THEN dispatch_uart_message(dword)
              ELSE Dispatched(TRUE, basic_timeout_, channel_state_, uart_reassembly_, NoCall)
  IN  /\ basic_timeout_' = done.basic_timeout
      /\ channel_state_' = done.channel_state
      /\ uart_reassembly_' = done.uart_reassembly
      /\ mp_stats_' =
           IF done.threw
             THEN [mp_stats_ EXCEPT !.deserialization_errors = @ + 1]
           ELSE IF mclass = 0 THEN [mp_stats_ EXCEPT !.basic_received = @ + 1]
           ELSE IF mclass = 1 THEN [mp_stats_ EXCEPT !.control_received = @ + 1]
           ELSE [mp_stats_ EXCEPT !.uart_received = @ + 1]
      /\ mp_ret' = MpRet("process_dword", dword, current_time_us, 0,
                         IF done.threw THEN "false" ELSE "true", done.called, MpSnapshot)
      /\ mp_calls' = mp_calls + 1
      /\ mp_fed' = IF ~uart_reassembly_.in_progress THEN << >> ELSE Append(mp_fed, dword)
      /\ UNCHANGED <<callbacks_, mp_expired>>

\* DlMessageProcessor::start_basic_timeout
start_basic_timeout(sequence_id, current_time_us) ==
  /\ basic_timeout_' = BasicMessageTimeout(current_time_us, sequence_id, TRUE)
  /\ mp_ret' = MpRet("start_basic_timeout", sequence_id, current_time_us, 0, "none", NoCall,
                     MpSnapshot)
  /\ mp_calls' = mp_calls + 1
  /\ mp_expired' = 0
  /\ UNCHANGED <<callbacks_, channel_state_, uart_reassembly_, mp_stats_, mp_fed>>

\* current_time_us - request_time_us in std::uint64_t: the difference, which wraps
\* to 2^64 - (request_time_us - current_time_us) when the request time is the later
elapsed_us(current_time_us, request_time_us) ==
  IF current_time_us >= request_time_us
    THEN [wrapped |-> FALSE, value |-> current_time_us - request_time_us]
    ELSE [wrapped |-> TRUE, value |-> request_time_us - current_time_us]

\* elapsed_us >= timeout_us; a wrapped difference 2^64 - value is at least every
\* timeout_us up to 2^64 - MaxTime
timeout_reached_late(elapsed, timeout_us) == elapsed.wrapped \/ elapsed.value > timeout_us

timeout_reached(elapsed, timeout_us) == elapsed.wrapped \/ elapsed.value >= timeout_us

\* DlMessageProcessor::check_basic_timeout
check_basic_timeout(current_time_us, timeout_us) ==
  LET expired ==
        /\ basic_timeout_.waiting_for_response
        /\ timeout_reached(elapsed_us(current_time_us, basic_timeout_.request_time_us),
                           timeout_us)
  IN  /\ mp_stats_' = IF expired THEN [mp_stats_ EXCEPT !.timeouts = @ + 1] ELSE mp_stats_
      /\ basic_timeout_' = IF expired THEN cancelled(basic_timeout_) ELSE basic_timeout_
      /\ mp_ret' = MpRet("check_basic_timeout", 0, current_time_us, timeout_us,
                         IF expired THEN "kTimeoutExpired" ELSE "kNoTimeout", NoCall,
                         MpSnapshot)
      /\ mp_calls' = mp_calls + 1
      /\ mp_expired' = IF expired THEN mp_expired + 1 ELSE mp_expired
      /\ UNCHANGED <<callbacks_, channel_state_, uart_reassembly_, mp_fed>>

\* DlMessageProcessor::cancel_basic_timeout
cancel_basic_timeout ==
  /\ basic_timeout_' = cancelled(basic_timeout_)
  /\ mp_ret' = MpRet("cancel_basic_timeout", 0, 0, 0, "none", NoCall, MpSnapshot)
  /\ mp_calls' = mp_calls + 1
  /\ UNCHANGED <<callbacks_, channel_state_, uart_reassembly_, mp_stats_, mp_expired, mp_fed>>

\* DlMessageProcessor::transition_channel_state
transition_channel_state(new_state, current_time_us) ==
  /\ channel_state_' = [channel_state_ EXCEPT !.state = new_state,
                                              !.last_request_time_us = current_time_us]
  /\ mp_ret' = MpRet("transition_channel_state", new_state, current_time_us, 0, "none",
                     NoCall, MpSnapshot)
  /\ mp_calls' = mp_calls + 1
  /\ UNCHANGED <<callbacks_, basic_timeout_, uart_reassembly_, mp_stats_, mp_expired, mp_fed>>

(***************************************************************************)
(* DlCommandProcessor on its own                                           *)
(***************************************************************************)

\* a command flit as CommandFactory builds it: no segment headers, no payload, and
\* the CRC of the header and the zero bytes
command_flit(flit_header) ==
  PackedFlit(flit_header, EmptyPackedFlit.segment_headers, EmptyPackedFlit.payload,
             compute_crc32(flit_header, EmptyPackedFlit.segment_headers,
                           EmptyPackedFlit.payload))

\* what DlCommandProcessor::process_flit returns, the stats_ it leaves and the
\* callbacks it invoked, each with its argument
Processed(result, stats, called) == [result |-> result, stats |-> stats, called |-> called]

CpRet(op, flit, processed, before) ==
  [op |-> op, flit |-> flit, result |-> processed.result, called |-> processed.called,
   before |-> before, ack_callback |-> ack_callback_, nak_callback |-> nak_callback_]

CpInit ==
  /\ ack_callback_ = FALSE
  /\ nak_callback_ = FALSE
  /\ cp_ret = CpRet("none", EmptyPackedFlit, Processed(FALSE, cmd_stats_, << >>), cmd_stats_)
  /\ cp_calls = 0

\* DlCommandProcessor::set_ack_callback, given a callable
set_ack_callback ==
  /\ ack_callback_' = TRUE
  /\ UNCHANGED <<nak_callback_, cp_ret, cp_calls, cmd_stats_>>

\* DlCommandProcessor::set_nak_callback, given a callable
set_nak_callback ==
  /\ nak_callback_' = TRUE
  /\ UNCHANGED <<ack_callback_, cp_ret, cp_calls, cmd_stats_>>

\* the payload test of process_flit, passed by every flit
carries_payload_never(header) == FALSE

\* `if (header.payload) return false;`
carries_payload(header) == header.payload

\* the CRC test of process_flit, passed by every flit
command_crc_ok_always(flit) == TRUE

\* `if (!verify_command_crc(flit)) return true;`
command_crc_ok(flit) == verify_command_crc(flit)

\* the body of DlCommandProcessor::process_flit
processed_flit(flit) ==
  LET header == deserialize_command_flit_header(flit.flit_header)
  IN IF carries_payload(header) THEN Processed(FALSE, cmd_stats_, << >>)
     ELSE IF header.op = kAck
       THEN IF ~command_crc_ok(flit) THEN Processed(TRUE, cmd_stats_, << >>)
            ELSE Processed(TRUE, [cmd_stats_ EXCEPT !.acks_received = @ + 1],
                           IF ack_callback_
                             THEN << <<"ack_callback_", header.ack_req_seq>> >>
                             ELSE << >>)
     ELSE IF header.op = kNak
       THEN IF ~command_crc_ok(flit) THEN Processed(TRUE, cmd_stats_, << >>)
            ELSE Processed(TRUE, [cmd_stats_ EXCEPT !.naks_received = @ + 1],
                           IF nak_callback_
                             THEN << <<"nak_callback_", header.ack_req_seq>> >>
                             ELSE << >>)
     ELSE Processed(FALSE, cmd_stats_, << >>)

\* DlCommandProcessor::process_flit
process_flit(flit) ==
  /\ cmd_stats_' = processed_flit(flit).stats
  /\ cp_ret' = CpRet("process_flit", flit, processed_flit(flit), cmd_stats_)
  /\ UNCHANGED <<ack_callback_, nak_callback_>>

(***************************************************************************)
(* DlPacingController on the transmit side, and UaLinkEndpoint's transmit   *)
(* path with the pacing callback and the error injector it was configured   *)
(* with. A pacing callback answers the same PacingDecision on every call.   *)
(***************************************************************************)

PacingDecision == {"kAllow", "kThrottle", "kDrop"}

\* DlPacingController::check_tx_pacing
check_tx_pacing(tx_callback) == IF tx_callback # "none" THEN tx_callback ELSE "kAllow"

\* `decision == PacingDecision::kDrop` of serialize_with_pacing
pacing_drops(decision) == decision = "kDrop"

\* DlSerializer::serialize_with_pacing
serialize_with_pacing(tl_flits, header, tx_callback) ==
  IF pacing_drops(check_tx_pacing(tx_callback))
    THEN [threw |-> FALSE, flit |-> EmptyPackedFlit, packed |-> 0]
    ELSE serialize(tl_flits, header)

\* a call of DlSerializer::serialize_with_pacing on the inputs, with a pacing
\* controller whose callback answers decision
SerializeWithPacing(decision) ==
  /\ pk_ser' = PkSer("serialize_with_pacing", decision,
                     serialize_with_pacing(pk_in, pk_hdr, decision))
  /\ UNCHANGED <<pk_in, pk_hdr, pk_out>>

\* UaLinkEndpoint::Stats, the counters the transmit path writes
TxPathStats(tx_read_requests, tx_dl_flits, tx_dropped_by_pacing, tx_dropped_by_error_injection) ==
  [tx_read_requests |-> tx_read_requests, tx_dl_flits |-> tx_dl_flits,
   tx_dropped_by_pacing |-> tx_dropped_by_pacing,
   tx_dropped_by_error_injection |-> tx_dropped_by_error_injection]

\* an endpoint constructed without tx_pacing_callback and without error_policy
PcInit ==
  /\ tx_callback_ = "none"
  /\ error_policy_ = "none"
  /\ tx_path_stats_ = TxPathStats(0, 0, 0, 0)
  /\ pc_sends = 0

\* the serialization step of transmit_tl_flits: the flit and the count, and the
\* counter of the early return taken ("none" when the flit goes on)
tl_to_dl(tl_flits, header) ==
  LET enabled == error_policy_ # "none"
      injected == serialize_with_error_injection(tl_flits, header, enabled, error_policy_)
      paced == serialize_with_pacing(tl_flits, header, tx_callback_)
  IN IF enabled /\ tx_callback_ # "none"
       THEN IF check_tx_pacing(tx_callback_) \in {"kDrop", "kThrottle"}
              THEN [result |-> injected, dropped |-> "tx_dropped_by_pacing"]
            ELSE IF injected.packed = 0
              THEN [result |-> injected, dropped |-> "tx_dropped_by_error_injection"]
            ELSE [result |-> injected, dropped |-> "none"]
     ELSE IF enabled
       THEN IF injected.packed = 0
              THEN [result |-> injected, dropped |-> "tx_dropped_by_error_injection"]
              ELSE [result |-> injected, dropped |-> "none"]
     ELSE IF tx_callback_ # "none"
       THEN IF paced.packed = 0
              THEN [result |-> paced, dropped |-> "tx_dropped_by_pacing"]
              ELSE [result |-> paced, dropped |-> "none"]
     ELSE [result |-> serialize(tl_flits, header), dropped |-> "none"]

\* UaLinkEndpoint::send_read_request of the configured endpoint, for a request
\* whose TL flit holds the bytes TlData(body): transmit_tl_flits({tl_flit}), then
\* tx_read_requests
send_configured_read_request(body) ==
  LET tl_flits == <<TlFlit(TlData(body), 0)>>
      header == [op |-> 0, payload |-> TRUE, flit_seq_no |-> next_seq(tx_last_seq_)]
      packing == tl_to_dl(tl_flits, header)
      requested == [tx_path_stats_ EXCEPT !.tx_read_requests = @ + 1]
  IN IF ~transmit_callback_ \/ packing.result.threw
       THEN /\ ep_ret' = EpRet("send_read_request", body, TRUE)
            /\ ep_out' = << >>
            /\ next_tag_' = IF transmit_callback_ THEN (next_tag_ + 1) % kTagSpace
                                                   ELSE next_tag_
            /\ UNCHANGED <<tx_last_seq_, buffer_, head_, tail_, count_, rb_ret, stats_,
                           tx_path_stats_, tag_ret>>
     ELSE IF packing.dropped # "none"
       THEN /\ allocate_tag
            /\ ep_ret' = EpRet("send_read_request", body, FALSE)
            /\ ep_out' = << >>
            /\ tx_path_stats_' = [requested EXCEPT ![packing.dropped] = @ + 1]
            /\ UNCHANGED <<tx_last_seq_, buffer_, head_, tail_, count_, rb_ret, stats_>>
     ELSE /\ allocate_tag
          /\ add_flit(header.flit_seq_no, packing.result.flit)
          /\ stats_' = [stats_ EXCEPT !.replay_buffer_size = count_']
          /\ ep_out' = <<packing.result.flit>>
          /\ tx_path_stats_' = [requested EXCEPT !.tx_dl_flits = @ + 1]
          /\ tx_last_seq_' = header.flit_seq_no
          /\ ep_ret' = EpRet("send_read_request", body, FALSE)

\* UaLinkEndpoint::set_tx_pacing_callback, given a callback that answers decision
set_tx_pacing_callback(decision) ==
  /\ tx_callback_' = decision
  /\ UNCHANGED <<error_policy_, tx_path_stats_>>

\* UaLinkEndpoint::enable_error_injection and set_error_policy, given a policy
\* that returns error; "none" is disable_error_injection
set_error_policy(error) ==
  /\ error_policy_' = error
  /\ UNCHANGED <<tx_callback_, tx_path_stats_>>

\* the early return transmit_tl_flits takes for the one TL flit of a request
\* ("none" when the flit goes on)
transmit_drops(body) ==
  tl_to_dl(<<TlFlit(TlData(body), 0)>>,
           [op |-> 0, payload |-> TRUE, flit_seq_no |-> next_seq(tx_last_seq_)]).dropped

\* Mutation of send_sequenced_read_request: a dropped flit takes its sequence number.
send_sequenced_read_request_consuming(body) ==
  LET header == [op |-> 0, payload |-> TRUE, flit_seq_no |-> next_seq(tx_last_seq_)]
      dropped == transmit_drops(body)
      requested == [tx_path_stats_ EXCEPT !.tx_read_requests = @ + 1]
  IN /\ transmit_callback_
     /\ allocate_tag
     /\ ep_ret' = EpRet("send_read_request", body, FALSE)
     /\ tx_last_seq_' = header.flit_seq_no
     /\ IF dropped # "none"
          THEN /\ ep_out' = << >>
               /\ tx_path_stats_' = [requested EXCEPT ![dropped] = @ + 1]
               /\ UNCHANGED <<buffer_, head_, tail_, count_, rb_ret>>
          ELSE /\ add_flit(header.flit_seq_no, DlFlit(encode_explicit_flit_header(header), body))
               /\ ep_out' = <<DlFlit(encode_explicit_flit_header(header), body)>>
               /\ tx_path_stats_' = [requested EXCEPT !.tx_dl_flits = @ + 1]

\* UaLinkEndpoint::send_read_request of the configured endpoint with the DL flit
\* kept as its header and body: the early returns of transmit_tl_flits, then the
\* replay buffer, the transmit callback, tx_dl_flits and tx_last_seq_
send_sequenced_read_request(body) ==
  LET header == [op |-> 0, payload |-> TRUE, flit_seq_no |-> next_seq(tx_last_seq_)]
      dropped == transmit_drops(body)
      requested == [tx_path_stats_ EXCEPT !.tx_read_requests = @ + 1]
  IN IF ~transmit_callback_
       THEN /\ ep_ret' = EpRet("send_read_request", body, TRUE)
            /\ ep_out' = << >>
            /\ UNCHANGED <<tx_last_seq_, buffer_, head_, tail_, count_, rb_ret, tagVars,
                           tx_path_stats_>>
     ELSE IF dropped # "none"
       THEN /\ allocate_tag
            /\ ep_ret' = EpRet("send_read_request", body, FALSE)
            /\ ep_out' = << >>
            /\ tx_path_stats_' = [requested EXCEPT ![dropped] = @ + 1]
            /\ UNCHANGED <<tx_last_seq_, buffer_, head_, tail_, count_, rb_ret>>
     ELSE /\ allocate_tag
          /\ transmit_tl_flits(body)
          /\ ep_ret' = EpRet("send_read_request", body, FALSE)
          /\ tx_path_stats_' = [requested EXCEPT !.tx_dl_flits = @ + 1]

(***************************************************************************)
(* PeriodicErrorPolicy as the policy of an enabled DlErrorInjector: the     *)
(* std::function holds the policy object, whose counter_ lives across the   *)
(* calls.                                                                   *)
(***************************************************************************)

\* PeriodicErrorPolicy
PeriodicErrorPolicy(period, error_type, counter) ==
  [period_ |-> period, error_type_ |-> error_type, counter_ |-> counter]

\* a DlErrorInjector constructed with PeriodicErrorPolicy(1, kNone) as its policy
PeInit ==
  /\ periodic_policy_ = PeriodicErrorPolicy(1, "kNone", 0)
  /\ pe_flits = 0

\* PeriodicErrorPolicy::operator(): the policy after the call and the error returned
periodic_call(policy) ==
  [policy |-> [policy EXCEPT !.counter_ = @ + 1],
   error |-> IF (policy.counter_ + 1) % policy.period_ = 0 THEN policy.error_type_
             ELSE "kNone"]

\* the calls of policy_ that serialize_with_error_injection makes for one flit: one
\* in should_drop_flit and, unless that one drops the flit, one in get_next_error
policy_calls(policy) ==
  LET first == periodic_call(policy)
      second == periodic_call(first.policy)
  IN IF should_drop_flit(TRUE, first.error)
       THEN [first |-> first.error, second |-> "kNone", policy |-> first.policy]
       ELSE [first |-> first.error, second |-> second.error, policy |-> second.policy]

\* DlSerializer::serialize_with_error_injection with an enabled injector whose
\* policy is the periodic policy
serialize_with_periodic_injection(tl_flits, header) ==
  LET calls == policy_calls(periodic_policy_)
      result == serialize(tl_flits, header)
      error == get_next_error(TRUE, calls.second)
  IN /\ periodic_policy_' = calls.policy
     /\ pk_ser' =
          PkSer("serialize_with_error_injection", periodic_policy_.error_type_,
                IF should_drop_flit(TRUE, calls.first)
                  THEN [threw |-> FALSE, flit |-> EmptyPackedFlit, packed |-> 0]
                ELSE IF ~result.threw /\ error # "kNone" /\ error # "kPacketDrop"
                  THEN [result EXCEPT !.flit = inject_error(result.flit, error)]
                ELSE result)
     /\ pe_flits' = pe_flits + 1
     /\ UNCHANGED <<pk_in, pk_hdr, pk_out>>

(***************************************************************************)
(* UpliCreditManager (src/src/upli_credit.cpp). A std::size_t is kept as    *)
(* an integer near 0 or, when negative, as 2^64 plus that integer, so that  *)
(* sums wrap as the 64-bit sums do.                                         *)
(***************************************************************************)

kMaxPorts == 4
kMaxVirtualChannels == 4
kDefaultCreditsPerVC == 16
kDefaultPoolCredits == 32

Ports == 0..(kMaxPorts - 1)
VirtualChannels == 0..(kMaxVirtualChannels - 1)

\* a > b of two std::size_t
size_gt(a, b) == IF (a < 0) # (b < 0) THEN a < 0 ELSE a > b

\* VcCreditConfig and PortCreditConfig
VcCreditConfig(initial_credits, enabled) ==
  [initial_credits |-> initial_credits, enabled |-> enabled]

PortCreditConfig(vc_config, pool_credits, use_pool) ==
  [vc_config |-> vc_config, pool_credits |-> pool_credits, use_pool |-> use_pool]

\* PortCreditConfig{}
DefaultPortCreditConfig ==
  PortCreditConfig([vc \in VirtualChannels |-> VcCreditConfig(kDefaultCreditsPerVC, TRUE)],
                   kDefaultPoolCredits, FALSE)

\* CreditStats{}, VcCreditState{} and PortCreditState{}
NoCreditStats ==
  [credits_consumed |-> 0, credits_returned |-> 0, credits_available |-> 0,
   send_blocked_count |-> 0]

NoVcCreditState ==
  [available_credits |-> 0, initial_credits |-> 0, init_done |-> FALSE,
   stats |-> NoCreditStats]

NoPortCreditState ==
  [vc_state |-> [vc \in VirtualChannels |-> NoVcCreditState], pool_available |-> 0,
   pool_initial |-> 0, use_pool |-> FALSE, port_init_done |-> FALSE]

UcRet(op, port_id, vc, result) ==
  [op |-> op, port_id |-> port_id, vc |-> vc, result |-> result]

\* UpliCreditManager::UpliCreditManager
UcInit ==
  /\ port_config_ = [port \in Ports |-> DefaultPortCreditConfig]
  /\ port_state_ = [port \in Ports |-> NoPortCreditState]
  /\ initialized_ = FALSE
  /\ uc_ret = UcRet("none", 0, 0, "none")
  /\ uc_calls = 0

\* UpliCreditManager::validate_port_vc throws
validate_port_vc_throws(port_id, vc) == port_id >= kMaxPorts \/ vc >= kMaxVirtualChannels

\* UpliCreditManager::configure_port
configure_port(port_id, config) ==
  IF port_id >= kMaxPorts
    THEN /\ uc_ret' = UcRet("configure_port", 0, 0, "threw")
         /\ UNCHANGED <<port_config_, port_state_, initialized_>>
    ELSE /\ port_config_' = [port_config_ EXCEPT ![port_id] = config]
         /\ initialized_' = FALSE
         /\ uc_ret' = UcRet("configure_port", 0, 0, "none")
         /\ UNCHANGED port_state_

\* UpliCreditManager::reset
credit_reset ==
  /\ port_state_' = [port \in Ports |-> NoPortCreditState]
  /\ initialized_' = FALSE
  /\ uc_ret' = UcRet("reset", 0, 0, "none")
  /\ UNCHANGED port_config_

\* the body of the loop of initialize_credits for one port
initialized_port(config, state) ==
  LET pooled == [state EXCEPT !.use_pool = config.use_pool]
  IN [(IF config.use_pool
         THEN [pooled EXCEPT !.pool_initial = config.pool_credits,
                             !.pool_available = config.pool_credits]
         ELSE [pooled EXCEPT !.vc_state =
                 [vc \in VirtualChannels |->
                    IF config.vc_config[vc].enabled
                      THEN [@[vc] EXCEPT
                              !.initial_credits = config.vc_config[vc].initial_credits,
                              !.available_credits = config.vc_config[vc].initial_credits,
                              !.init_done = TRUE]
                      ELSE @[vc]]])
      EXCEPT !.port_init_done = TRUE]

\* UpliCreditManager::initialize_credits
initialize_credits ==
  /\ port_state_' = [port \in Ports |-> initialized_port(port_config_[port], port_state_[port])]
  /\ initialized_' = TRUE
  /\ uc_ret' = UcRet("initialize_credits", 0, 0, "none")
  /\ UNCHANGED port_config_

\* UpliCreditManager::has_credit on a PortCreditState, for a valid port and vc
has_credit(state, vc) ==
  IF ~state.port_init_done THEN FALSE
  ELSE IF state.use_pool THEN size_gt(state.pool_available, 0)
  ELSE state.vc_state[vc].init_done /\ size_gt(state.vc_state[vc].available_credits, 0)

\* UpliCreditManager::get_available_credits on a PortCreditState
get_available_credits(state, vc) ==
  IF ~state.port_init_done THEN 0
  ELSE IF state.use_pool THEN state.pool_available
  ELSE IF ~state.vc_state[vc].init_done THEN 0
  ELSE state.vc_state[vc].available_credits

\* UpliCreditManager::consume_credit
consume_credit(port_id, vc) ==
  LET state == port_state_[port_id]
      blocked == IF state.use_pool THEN state
                 ELSE [state EXCEPT !.vc_state[vc].stats.send_blocked_count = @ + 1]
      taken == IF state.use_pool THEN [state EXCEPT !.pool_available = @ - 1]
               ELSE [state EXCEPT
                       !.vc_state[vc].available_credits = @ - 1,
                       !.vc_state[vc].stats.credits_consumed = @ + 1,
                       !.vc_state[vc].stats.credits_available =
                          state.vc_state[vc].available_credits - 1]
  IN /\ UNCHANGED <<port_config_, initialized_>>
     /\ IF validate_port_vc_throws(port_id, vc)
          THEN /\ uc_ret' = UcRet("consume_credit", 0, 0, "threw")
               /\ UNCHANGED port_state_
        ELSE IF ~has_credit(state, vc)
          THEN /\ port_state_' = [port_state_ EXCEPT ![port_id] = blocked]
               /\ uc_ret' = UcRet("consume_credit", port_id, vc, "false")
        ELSE /\ port_state_' = [port_state_ EXCEPT ![port_id] = taken]
             /\ uc_ret' = UcRet("consume_credit", port_id, vc, "true")

\* Mutation of capped: the sum is kept whatever the initial value.
uncapped(available, initial) == available

\* `if (available > initial) available = initial`
capped(available, initial) == IF size_gt(available, initial) THEN initial ELSE available

\* the pool branch and the VC branch of return_credits and process_credit_return
pool_returned(state, count) ==
  [state EXCEPT !.pool_available = capped(@ + count, state.pool_initial)]

vc_returned(state, vc, count) ==
  LET available == capped(state.vc_state[vc].available_credits + count,
                          state.vc_state[vc].initial_credits)
  IN [state EXCEPT !.vc_state[vc].available_credits = available,
                   !.vc_state[vc].stats.credits_returned = @ + count,
                   !.vc_state[vc].stats.credits_available = available]

\* UpliCreditManager::return_credits
return_credits(port_id, vc, count) ==
  /\ UNCHANGED <<port_config_, initialized_>>
  /\ IF validate_port_vc_throws(port_id, vc)
       THEN /\ uc_ret' = UcRet("return_credits", 0, 0, "threw")
            /\ UNCHANGED port_state_
       ELSE /\ port_state_' =
                 [port_state_ EXCEPT ![port_id] =
                    IF @.use_pool THEN pool_returned(@, count)
                    ELSE vc_returned(@, vc, count)]
            /\ uc_ret' = UcRet("return_credits", 0, 0, "none")

\* UpliCreditPortFields and UpliCreditReturn
UpliCreditPortFields(credit_vld, credit_pool, credit_vc, credit_num) ==
  [credit_vld |-> credit_vld, credit_pool |-> credit_pool, credit_vc |-> credit_vc,
   credit_num |-> credit_num]

UpliCreditReturn(ports, credit_init_done) ==
  [ports |-> ports, credit_init_done |-> credit_init_done]

\* the body of the loop of process_credit_return for one port
credit_returned(state, port_credit, init_done) ==
  LET returned ==
        IF port_credit.credit_pool THEN pool_returned(state, port_credit.credit_num + 1)
        ELSE IF port_credit.credit_vc < kMaxVirtualChannels
          THEN vc_returned(state, port_credit.credit_vc, port_credit.credit_num + 1)
        ELSE state
  IN IF ~port_credit.credit_vld THEN state
     ELSE IF init_done THEN [returned EXCEPT !.port_init_done = TRUE]
     ELSE returned

\* UpliCreditManager::process_credit_return
process_credit_return(credits) ==
  /\ port_state_' = [port \in Ports |->
                       credit_returned(port_state_[port], credits.ports[port],
                                       credits.credit_init_done[port])]
  /\ uc_ret' = UcRet("process_credit_return", 0, 0, "none")
  /\ UNCHANGED <<port_config_, initialized_>>

(***************************************************************************)
(* Two endpoints joined by a loss-free, in-order link. The sending endpoint *)
(* is the UaLinkEndpoint of the variables above; of the receiving endpoint  *)
(* the link needs the DlAckNakManager (expected_seq_, ack_every_n_,         *)
(* flits_since_ack_: the sending endpoint receives command flits only, so   *)
(* its own manager is never consulted) and stats_ (peer_stats_). The        *)
(* receiving endpoint sends no payload, so its tx_last_seq_ stays 0, and    *)
(* its transmit callback hands its command flits to the link. A flit on the *)
(* link is its header and body; it arrives as sent, so its CRC verifies.    *)
(***************************************************************************)

\* UaLinkEndpoint::Stats of the receiving endpoint, the counters it writes
PeerStats(rx_dl_flits, tx_acks_sent, tx_replay_requests_sent) ==
  [rx_dl_flits |-> rx_dl_flits, tx_acks_sent |-> tx_acks_sent,
   tx_replay_requests_sent |-> tx_replay_requests_sent]

LkRet(op, flit, reply) == [op |-> op, flit |-> flit, reply |-> reply]

LkInit ==
  /\ to_receiver = << >>
  /\ to_sender = << >>
  /\ peer_stats_ = PeerStats(0, 0, 0)
  /\ lk_ret = LkRet("none", DlFlit(0, 0), NoFlit)

\* UaLinkEndpoint::receive_flit of the receiving endpoint for an intact flit that
\* is not a command: the CRC check passes, the DlAckNakManager answers with a
\* command flit that goes to the transmit callback, and handle_tl_flit ignores
\* the requests the flit carries
peer_receive_flit(flit) ==
  LET received_seq == decode_explicit_flit_header(flit.flit_header).flit_seq_no
      counted == [peer_stats_ EXCEPT !.rx_dl_flits = @ + 1]
  IN /\ ~is_command(flit)
     /\ process_received_flit(received_seq, 0)
     /\ to_sender' = IF rx_ret'.flit.has_value THEN Append(to_sender, rx_ret'.flit.flit)
                     ELSE to_sender
     /\ peer_stats_' =
          IF ~rx_ret'.flit.has_value THEN counted
          ELSE IF deserialize_command_flit_header(rx_ret'.flit.flit.flit_header).op = kAck
            THEN [counted EXCEPT !.tx_acks_sent = @ + 1]
            ELSE [counted EXCEPT !.tx_replay_requests_sent = @ + 1]
     /\ lk_ret' = LkRet("peer_receive_flit", flit, rx_ret'.flit)

\* UaLinkEndpoint::receive_flit of the sending endpoint for an intact command
\* flit; what replay_from re-emits goes to the link
link_receive_flit(flit) ==
  /\ is_command(flit)
  /\ receive_verified_command(flit)
  /\ to_receiver' = to_receiver \o ep_out'
  /\ rcv_count' = rcv_count + 1
  /\ lk_ret' = LkRet("receive_flit", flit, NoFlit)

(***************************************************************************)
(* Specifications                                                          *)
(***************************************************************************)

EpInit ==
  /\ tx_last_seq_ = 0
  /\ transmit_callback_ = FALSE
  /\ ep_out = << >>
  /\ ep_ret = EpRet("none", 0, FALSE)
  /\ ep_sends = 0
  /\ next_tag_ = 0
  /\ tag_ret = [tag |-> 0, returned |-> 0]

Init ==
  /\ TxInit
  /\ RxInit
  /\ RbInit
  /\ rb_next \in StartSeqs
  /\ EpInit
  /\ PkInit
  /\ RcvInit
  /\ MqInit
  /\ MpInit
  /\ CpInit
  /\ PcInit
  /\ PeInit
  /\ UcInit
  /\ LkInit

\* DlTxController alone
GetNextSeqForPayload == get_next_seq_for_payload /\ UNCHANGED <<extVars, rxVars, rbVars, epVars>>
GetSeqForNop == get_seq_for_nop /\ UNCHANGED <<extVars, rxVars, rbVars, epVars>>
StartReplay == start_replay /\ UNCHANGED <<extVars, rxVars, rbVars, epVars>>
FinishReplay == finish_replay /\ UNCHANGED <<extVars, rxVars, rbVars, epVars>>
TickExplicitCount == tick_explicit_count /\ UNCHANGED <<extVars, rxVars, rbVars, epVars>>
TxReset == tx_reset /\ UNCHANGED <<extVars, rxVars, rbVars, epVars>>

InitTx == Init /\ rb_next = 1

\* sequence allocation
NextTx ==
  \/ GetNextSeqForPayload
  \/ GetSeqForNop
  \/ StartReplay
  \/ FinishReplay
  \/ TxReset

SpecTx == InitTx /\ [][NextTx]_vars

\* the explicit-flit countdown
NextTxCount ==
  \/ TickExplicitCount
  \/ StartReplay
  \/ FinishReplay
  \/ TxReset

SpecTxCount == InitTx /\ [][NextTxCount]_vars

\* command flit generation
GenerateSeqInputs == {0, 50, 100, 511}

GenerateAck ==
  /\ tx_stats_.ack_flits_sent + tx_stats_.replay_req_flits_sent < MaxGenerates
  /\ \E ack_seq \in GenerateSeqInputs : generate_ack(ack_seq)
  /\ UNCHANGED <<extVars, rxVars, rbVars, epVars>>

GenerateReplayRequest ==
  /\ tx_stats_.ack_flits_sent + tx_stats_.replay_req_flits_sent < MaxGenerates
  /\ \E replay_seq \in GenerateSeqInputs : generate_replay_request(replay_seq)
  /\ UNCHANGED <<extVars, rxVars, rbVars, epVars>>

GeneratePayloadSeq ==
  /\ state_.last_seq < MaxGenerateSeq
  /\ GetNextSeqForPayload

NextTxGenerate ==
  \/ GeneratePayloadSeq
  \/ GenerateAck
  \/ GenerateReplayRequest
  \/ TxReset

SpecTxGenerate == InitTx /\ [][NextTxGenerate]_vars

\* DlSequenceTracker alone
Advance == advance /\ UNCHANGED <<extVars, txVars, rbVars, epVars>>
TrackerReset == tracker_reset /\ UNCHANGED <<extVars, txVars, rbVars, epVars>>

NextTracker ==
  \/ Advance
  \/ TrackerReset

SpecTracker == InitTx /\ [][NextTracker]_vars

\* DlAckNakManager alone
ProcessReceivedFlit ==
  /\ expected_seq_ < MaxRxSeq
  /\ \E received_seq \in ReceivedSeqInputs, our_tx_seq_lo \in TxSeqLoInputs :
       process_received_flit(received_seq, our_tx_seq_lo)
  /\ UNCHANGED <<extVars, txVars, rbVars, epVars>>

ResetRxState == reset_rx_state /\ UNCHANGED <<extVars, txVars, rbVars, epVars>>

SetAckEveryNFlits ==
  /\ \E n \in 0..MaxAckEveryN : set_ack_every_n_flits(n)
  /\ UNCHANGED <<extVars, txVars, rbVars, epVars>>

NextAckNak ==
  \/ ProcessReceivedFlit
  \/ ResetRxState
  \/ SetAckEveryNFlits

SpecAckNak == InitTx /\ [][NextAckNak]_vars

\* DlReplayBuffer alone
NextReplay ==
  \/ AddFlit /\ UNCHANGED <<extVars, txVars, rxVars, epVars>>
  \/ ProcessAck /\ UNCHANGED <<extVars, txVars, rxVars, epVars>>

SpecReplay == Init /\ [][NextReplay]_vars

\* UaLinkEndpoint's transmit path
SetTransmitCallback ==
  /\ set_transmit_callback
  /\ UNCHANGED <<extVars, txVars, rxVars, rb_adds, rb_acks, rb_next, ep_sends, tagVars>>

SendReadRequest ==
  /\ ep_sends < MaxEpSends
  /\ \E body \in BodyInputs : send_read_request(body)
  /\ ep_sends' = ep_sends + 1
  /\ UNCHANGED <<extVars, txVars, rxVars, rb_adds, rb_acks, rb_next>>

EpProcessAck ==
  /\ \E ack_seq \in EpSeqInputs : ep_process_ack(ack_seq)
  /\ UNCHANGED <<extVars, txVars, rxVars, rb_adds, rb_acks, rb_next, ep_sends, tagVars>>

ReplayFrom ==
  /\ \E seq \in EpSeqInputs : replay_from(seq)
  /\ UNCHANGED <<extVars, txVars, rxVars, rb_adds, rb_acks, rb_next, ep_sends, tagVars>>

NextEndpoint ==
  \/ SetTransmitCallback
  \/ SendReadRequest
  \/ EpProcessAck
  \/ ReplayFrom

SpecEndpoint == InitTx /\ [][NextEndpoint]_vars

\* UaLinkEndpoint sending without pause once its transmit callback is set: Acks
\* arrive only when the replay buffer is full
SendWhileFilling ==
  /\ transmit_callback_
  /\ ep_sends < MaxFillSends
  /\ send_read_request(0)
  /\ ep_sends' = ep_sends + 1
  /\ UNCHANGED <<extVars, txVars, rxVars, rb_adds, rb_acks, rb_next>>

AckWhenFull ==
  /\ is_full
  /\ \E ack_seq \in EpSeqInputs : ep_process_ack(ack_seq)
  /\ UNCHANGED <<extVars, txVars, rxVars, rb_adds, rb_acks, rb_next, ep_sends, tagVars>>

NextEndpointFill ==
  \/ SetTransmitCallback
  \/ SendWhileFilling
  \/ AckWhenFull

SpecEndpointFill == InitTx /\ [][NextEndpointFill]_vars

\* DlSerializer, DlDeserializer and the endpoint's receive path: one list of TL
\* flits is serialized, with or without error injection, and the flit is checked
\* and received
TlFlitInput(n, seed) ==
  [i \in 1..n |-> TlFlit(TlData((seed + 32 * (i - 1)) % 256), (seed + i) % 4)]

TlFlitInputs == {TlFlitInput(n, seed) : n \in 0..MaxTlFlits, seed \in {0, 41}}

HeaderInputs ==
  {[op |-> 0, payload |-> TRUE, flit_seq_no |-> 1],
   [op |-> kAck, payload |-> FALSE, flit_seq_no |-> 1],
   [op |-> kNak, payload |-> FALSE, flit_seq_no |-> 1]}

PolicyInputs == {"kNone", "kCrcCorruption", "kPacketDrop"}

InitLink ==
  /\ TxInit
  /\ RxInit
  /\ RbInit
  /\ rb_next = 1
  /\ EpInit
  /\ pk_in \in TlFlitInputs
  /\ pk_hdr \in HeaderInputs
  /\ PkFresh
  /\ enable_crc_check_ \in BOOLEAN
  /\ enable_ack_nak_ \in BOOLEAN
  /\ rx_callback_ \in BOOLEAN
  /\ RcvFresh
  /\ MqInit
  /\ MpInit
  /\ CpInit
  /\ PcInit
  /\ PeInit
  /\ UcInit
  /\ LkInit

LinkSerialize ==
  /\ pk_ser.op = "none"
  /\ Serialize
  /\ UNCHANGED <<txVars, rxVars, rbVars, epVars, rcvVars, mqVars, mpVars, cpVars, pcVars, peVars, ucVars, lkVars>>

LinkSerializeWithErrorInjection ==
  /\ pk_ser.op = "none"
  /\ \E policy \in PolicyInputs : SerializeWithErrorInjection(policy)
  /\ UNCHANGED <<txVars, rxVars, rbVars, epVars, rcvVars, mqVars, mpVars, cpVars, pcVars, peVars, ucVars, lkVars>>

LinkDeserializeWithCrcCheck ==
  /\ pk_ser.op # "none" /\ ~pk_ser.threw
  /\ pk_out.op = "none"
  /\ DeserializeWithCrcCheck
  /\ UNCHANGED <<txVars, rxVars, rbVars, epVars, rcvVars, mqVars, mpVars, cpVars, pcVars, peVars, ucVars, lkVars>>

ReceiveFlit ==
  /\ pk_ser.op # "none" /\ ~pk_ser.threw
  /\ rcv_count < MaxReceives
  /\ receive_flit(pk_ser.flit)
  /\ UNCHANGED <<txVars, rb_adds, rb_acks, rb_next, ep_sends, tagVars, pkVars, mqVars, mpVars, cpVars, pcVars, peVars, ucVars, lkVars>>

NextLink ==
  \/ SetTransmitCallback
  \/ LinkSerialize
  \/ LinkSerializeWithErrorInjection
  \/ LinkDeserializeWithCrcCheck
  \/ ReceiveFlit

SpecLink == InitLink /\ [][NextLink]_vars

\* DlMessageQueue alone: messages of the three groups are enqueued and DWords popped
\* in any order
TransportPayload(n, id) == [i \in 1..n |-> 16909060 * id + i]

MessageInputs(id) ==
  {DlMessage("NoOpMessage", << >>, id), DlMessage("ChannelNegotiation", << >>, id),
   DlMessage("UartStreamCreditUpdate", << >>, id)}
    \cup {DlMessage("UartStreamTransportMessage", TransportPayload(n, id), id) :
            n \in {0, MaxPayloadDwords}}

Enqueue ==
  /\ mq_enqueued < MaxEnqueues
  /\ \E msg \in MessageInputs(mq_enqueued + 1) : enqueue(msg)
  /\ UNCHANGED <<txVars, rxVars, rbVars, epVars, pkVars, rcvVars, mpVars, cpVars, pcVars, peVars, ucVars, lkVars>>

PopNextDword ==
  /\ pop_next_dword
  /\ UNCHANGED <<txVars, rxVars, rbVars, epVars, pkVars, rcvVars, mpVars, cpVars, pcVars, peVars, ucVars, lkVars>>

NextQueue ==
  \/ Enqueue
  \/ PopNextDword

SpecQueue == InitTx /\ [][NextQueue]_vars

\* DlMessageProcessor alone: callbacks are set, DWords processed and the timeout and
\* channel state driven by the host, in any order
CallbackInputs ==
  {"tl_rate_callback_", "device_id_callback_", "control_callback_", "uart_credit_callback_",
   "uart_transport_callback_"}

\* the ChannelNegotiation messages a peer sends, as serialize_channel_negotiation
\* encodes them
ChannelNegotiationInputs ==
  {ChannelNegotiation(0, command, 0) : command \in 0..4} \cup {ChannelNegotiation(15, 1, 0)}

SerializedNegotiationInputs ==
  {serialize_channel_negotiation(msg) : msg \in ChannelNegotiationInputs}

\* DWords by their first byte: control DWords of type 0b100 with each command and
\* compressed, a control DWord of another type, basic DWords with and without the
\* ack bit, UART DWords and a DWord of the reserved class
RawDwordInputs ==
  {<<96, command * 16, 0, 0>> : command \in 0..4}
    \cup {<<96, 0, 0, 1>>, <<64, 0, 0, 0>>, <<8, 0, 0, 0>>, <<192, 0, 0, 0>>}
    \cup {<<32, 0, 0, 0>>, <<40, 0, 0, 0>>, <<40, 0, 16, 0>>, <<48, 0, 16, 0>>}
    \cup {<<152, 0, 0, 0>>, <<147, 0, 0, 0>>, <<160, 0, 0, 0>>}

\* single-DWord messages of the other types with the DWord their serializer gives
SingleDwordMessage(type, msg, dword) == [type |-> type, msg |-> msg, dword |-> dword]

SingleDwordInputs ==
  {SingleDwordMessage("NoOpMessage", NoOpMessage, serialize_no_op_message(NoOpMessage))}
    \cup {SingleDwordMessage("TlRateNotification", msg, serialize_tl_rate_notification(msg)) :
             msg \in {TlRateNotification(256, TRUE), TlRateNotification(8192, FALSE)}}
    \cup {SingleDwordMessage("DeviceIdMessage", msg, serialize_device_id_message(msg)) :
             msg \in {DeviceIdMessage(TRUE, 1, 5, TRUE)}}
    \cup {SingleDwordMessage("PortIdMessage", msg, serialize_port_id_message(msg)) :
             msg \in {PortIdMessage(TRUE, 3, TRUE)}}
    \cup {SingleDwordMessage("UartStreamResetRequest", msg,
                              serialize_uart_stream_reset_request(msg)) :
             msg \in {UartStreamResetRequest(FALSE, 2)}}
    \cup {SingleDwordMessage("UartStreamResetResponse", msg,
                              serialize_uart_stream_reset_response(msg)) :
             msg \in {UartStreamResetResponse(1, FALSE, 2)}}
    \cup {SingleDwordMessage("UartStreamCreditUpdate", msg,
                              serialize_uart_stream_credit_update(msg)) :
             msg \in {UartStreamCreditUpdate(100, 0)}}
    \cup {SingleDwordMessage("ChannelNegotiation", msg, serialize_channel_negotiation(msg)) :
             msg \in ChannelNegotiationInputs}

DwordInputs == {m.dword : m \in SingleDwordInputs} \cup RawDwordInputs

TimeInputs == 0..MaxTime

SetCallback ==
  /\ Cardinality(callbacks_) < MaxCallbacks
  /\ \E callback \in CallbackInputs : set_callback(callback)
  /\ UNCHANGED <<txVars, rxVars, rbVars, epVars, pkVars, rcvVars, mqVars, cpVars, pcVars, peVars, ucVars, lkVars>>

ProcessDword ==
  /\ mp_calls < MaxProcessorCalls
  /\ \E dword \in DwordInputs : process_dword(dword, MaxTime)
  /\ UNCHANGED <<txVars, rxVars, rbVars, epVars, pkVars, rcvVars, mqVars, cpVars, pcVars, peVars, ucVars, lkVars>>

StartBasicTimeout ==
  /\ mp_calls < MaxProcessorCalls
  /\ \E now \in TimeInputs : start_basic_timeout(7, now)
  /\ UNCHANGED <<txVars, rxVars, rbVars, epVars, pkVars, rcvVars, mqVars, cpVars, pcVars, peVars, ucVars, lkVars>>

CheckBasicTimeout ==
  /\ mp_calls < MaxProcessorCalls
  /\ \E now \in TimeInputs, timeout_us \in TimeInputs : check_basic_timeout(now, timeout_us)
  /\ UNCHANGED <<txVars, rxVars, rbVars, epVars, pkVars, rcvVars, mqVars, cpVars, pcVars, peVars, ucVars, lkVars>>

CancelBasicTimeout ==
  /\ mp_calls < MaxProcessorCalls
  /\ cancel_basic_timeout
  /\ UNCHANGED <<txVars, rxVars, rbVars, epVars, pkVars, rcvVars, mqVars, cpVars, pcVars, peVars, ucVars, lkVars>>

TransitionChannelState ==
  /\ mp_calls < MaxProcessorCalls
  /\ \E new_state \in ChannelState : transition_channel_state(new_state, MaxTime)
  /\ UNCHANGED <<txVars, rxVars, rbVars, epVars, pkVars, rcvVars, mqVars, cpVars, pcVars, peVars, ucVars, lkVars>>

NextProcessor ==
  \/ SetCallback
  \/ ProcessDword
  \/ StartBasicTimeout
  \/ CheckBasicTimeout
  \/ CancelBasicTimeout
  \/ TransitionChannelState

SpecProcessor == InitTx /\ [][NextProcessor]_vars

\* DlCommandProcessor alone: flits of every op, with and without the payload bit,
\* with a good and a corrupted CRC
CommandHeaderInputs ==
  {[op |-> op, payload |-> payload, ack_req_seq |-> seq, flit_seq_lo |-> 3] :
     op \in {0, 1, 2, 3, 7}, payload \in BOOLEAN, seq \in {5, 511}}

CommandFlitInputs ==
  {command_flit(serialize_command_flit_header(header)) : header \in CommandHeaderInputs}
    \cup {inject_error(command_flit(serialize_command_flit_header(header)),
                       "kCrcCorruption") : header \in CommandHeaderInputs}

otherRcvVars ==
  <<enable_crc_check_, enable_ack_nak_, rx_callback_, stats_, delivered, rx_notified,
    rcv_ret, rcv_count>>

SetAckCallback ==
  /\ ~ack_callback_
  /\ set_ack_callback
  /\ UNCHANGED <<txVars, rxVars, rbVars, epVars, pkVars, otherRcvVars, mqVars, mpVars, pcVars, peVars, ucVars, lkVars>>

SetNakCallback ==
  /\ ~nak_callback_
  /\ set_nak_callback
  /\ UNCHANGED <<txVars, rxVars, rbVars, epVars, pkVars, otherRcvVars, mqVars, mpVars, pcVars, peVars, ucVars, lkVars>>

ProcessFlit ==
  /\ cp_calls < MaxCommandFlits
  /\ \E flit \in CommandFlitInputs : process_flit(flit)
  /\ cp_calls' = cp_calls + 1
  /\ UNCHANGED <<txVars, rxVars, rbVars, epVars, pkVars, otherRcvVars, mqVars, mpVars, pcVars, peVars, ucVars, lkVars>>

NextCommand ==
  \/ SetAckCallback
  \/ SetNakCallback
  \/ ProcessFlit

SpecCommand == InitTx /\ [][NextCommand]_vars

\* UaLinkEndpoint receiving command flits while it sends: with Ack/NAK processing
\* enabled the constructor sets both callbacks of command_processor_
LinkCommandInputs ==
  LET headers == {[op |-> op, payload |-> payload, ack_req_seq |-> seq, flit_seq_lo |-> 0] :
                    op \in {0, kAck, kNak}, payload \in BOOLEAN, seq \in {1, 2}}
  IN {command_flit(serialize_command_flit_header(header)) : header \in headers}
       \cup {inject_error(command_flit(serialize_command_flit_header(header)),
                          "kCrcCorruption") : header \in headers}

InitCommandLink ==
  /\ TxInit
  /\ RxInit
  /\ RbInit
  /\ rb_next = 1
  /\ EpInit
  /\ PkInit
  /\ enable_crc_check_ \in BOOLEAN
  /\ enable_ack_nak_ \in BOOLEAN
  /\ rx_callback_ = FALSE
  /\ RcvFresh
  /\ MqInit
  /\ MpInit
  /\ ack_callback_ = enable_ack_nak_
  /\ nak_callback_ = enable_ack_nak_
  /\ cp_ret = CpRet("none", EmptyPackedFlit, Processed(FALSE, cmd_stats_, << >>), cmd_stats_)
  /\ cp_calls = 0
  /\ PcInit
  /\ PeInit
  /\ UcInit
  /\ LkInit

\* UaLinkEndpoint::receive_flit, with the call of command_processor_.process_flit
\* it makes when Ack/NAK processing is enabled
ReceiveCommandFlit ==
  /\ rcv_count < MaxReceives
  /\ \E flit \in LinkCommandInputs :
        /\ receive_flit(flit)
        /\ IF enable_ack_nak_
             THEN /\ cp_ret' = CpRet("process_flit", flit, processed_flit(flit), cmd_stats_)
                  /\ cp_calls' = cp_calls + 1
             ELSE UNCHANGED <<cp_ret, cp_calls>>
  /\ UNCHANGED <<txVars, rb_adds, rb_acks, rb_next, ep_sends, tagVars, pkVars, mqVars, mpVars,
                 ack_callback_, nak_callback_, pcVars, peVars, ucVars, lkVars>>

NextCommandLink ==
  \/ SetTransmitCallback
  \/ SendReadRequest
  \/ ReceiveCommandFlit

SpecCommandLink == InitCommandLink /\ [][NextCommandLink]_vars

\* DlSerializer::serialize_with_pacing and an endpoint configured with a pacing
\* callback, with or without an error policy that returns kNone
PacingInputs == PacingDecision \cup {"none"}

InitPacing ==
  /\ TxInit
  /\ RxInit
  /\ RbInit
  /\ rb_next = 1
  /\ EpInit
  /\ pk_in \in {TlFlitInput(n, 41) : n \in {0, 1, MaxTlFlits}}
  /\ pk_hdr = [op |-> 0, payload |-> TRUE, flit_seq_no |-> 1]
  /\ PkFresh
  /\ RcvInit
  /\ MqInit
  /\ MpInit
  /\ CpInit
  /\ tx_callback_ \in PacingInputs
  /\ error_policy_ \in {"none", "kNone"}
  /\ tx_path_stats_ = TxPathStats(0, 0, 0, 0)
  /\ pc_sends = 0
  /\ PeInit
  /\ UcInit
  /\ LkInit

PacingSerialize ==
  /\ \E decision \in PacingInputs : SerializeWithPacing(decision)
  /\ UNCHANGED <<txVars, rxVars, rbVars, epVars, rcvVars, mqVars, mpVars, cpVars, pcVars, peVars, ucVars, lkVars>>

SendConfiguredReadRequest ==
  /\ pc_sends < MaxPacedSends
  /\ \E body \in BodyInputs : send_configured_read_request(body)
  /\ pc_sends' = pc_sends + 1
  /\ UNCHANGED <<txVars, rxVars, rb_adds, rb_acks, rb_next, transmit_callback_, ep_sends,
                 pkVars, enable_crc_check_, enable_ack_nak_, rx_callback_, cmd_stats_,
                 delivered, rx_notified, rcv_ret, rcv_count, mqVars, mpVars, cpVars,
                 tx_callback_, error_policy_, peVars, ucVars, lkVars>>

NextPacing ==
  \/ SetTransmitCallback
  \/ PacingSerialize
  \/ SendConfiguredReadRequest

SpecPacing == InitPacing /\ [][NextPacing]_vars

\* UaLinkEndpoint sending read and write requests until the tag counter has
\* wrapped; ep_sends is not kept here, a request that throws leaves the endpoint
\* as it was
TagWriteSizes == {56, 57}

SendTaggedRead ==
  /\ tag_ret.returned < MaxTagSends
  /\ send_read_request(0)
  /\ UNCHANGED <<extVars, txVars, rxVars, rb_adds, rb_acks, rb_next, ep_sends>>

SendTaggedWrite ==
  /\ tag_ret.returned < MaxTagSends
  /\ \E data_size \in TagWriteSizes : send_write_request(0, data_size)
  /\ UNCHANGED <<extVars, txVars, rxVars, rb_adds, rb_acks, rb_next, ep_sends>>

NextTags ==
  \/ SetTransmitCallback
  \/ SendTaggedRead
  \/ SendTaggedWrite

SpecTags == InitTx /\ [][NextTags]_vars

\* UaLinkEndpoint sending while its pacing callback and its error policy are
\* changed between sends, so that any send may be dropped, until the sequence
\* numbers have wrapped
SequencedPacingInputs == {"none", "kAllow", "kDrop", "kThrottle"}
SequencedPolicyInputs == {"none", "kPacketDrop"}

SetTxPacingCallback ==
  /\ \E decision \in SequencedPacingInputs : set_tx_pacing_callback(decision)
  /\ UNCHANGED <<txVars, rxVars, rbVars, epVars, pkVars, rcvVars, mqVars, mpVars, cpVars,
                 pc_sends, peVars, ucVars, lkVars>>

SetErrorPolicy ==
  /\ \E error \in SequencedPolicyInputs : set_error_policy(error)
  /\ UNCHANGED <<txVars, rxVars, rbVars, epVars, pkVars, rcvVars, mqVars, mpVars, cpVars,
                 pc_sends, peVars, ucVars, lkVars>>

SendSequencedReadRequest ==
  /\ tx_path_stats_.tx_dl_flits < MaxSequencedFlits
  /\ \/ tx_path_stats_.tx_dropped_by_pacing + tx_path_stats_.tx_dropped_by_error_injection
          < MaxDrops
     \/ transmit_drops(0) = "none"
  /\ send_sequenced_read_request(0)
  /\ UNCHANGED <<txVars, rxVars, rb_adds, rb_acks, rb_next, transmit_callback_, ep_sends,
                 pkVars, rcvVars, mqVars, mpVars, cpVars, tx_callback_, error_policy_,
                 pc_sends, peVars, ucVars, lkVars>>

NextSequenced ==
  \/ SetTransmitCallback
  \/ SetTxPacingCallback
  \/ SetErrorPolicy
  \/ SendSequencedReadRequest

SpecSequenced == InitTx /\ [][NextSequenced]_vars

\* DlMessageQueue popped again and again while messages are enqueued: the caller
\* keeps calling pop_next_dword
DrainEnqueue == mq_enqueued < MaxDrainEnqueues /\ Enqueue

NextQueueDrain ==
  \/ DrainEnqueue
  \/ PopNextDword

SpecQueueDrain == InitTx /\ [][NextQueueDrain]_vars /\ WF_vars(PopNextDword)

\* flits serialized one after the other through an enabled DlErrorInjector whose
\* policy is PeriodicErrorPolicy(period, error), for lists of 1 to 3 TL flits
InitPeriodic ==
  /\ TxInit
  /\ RxInit
  /\ RbInit
  /\ rb_next = 1
  /\ EpInit
  /\ pk_in \in {TlFlitInput(n, 41) : n \in 1..3}
  /\ pk_hdr = [op |-> 0, payload |-> TRUE, flit_seq_no |-> 1]
  /\ PkFresh
  /\ RcvInit
  /\ MqInit
  /\ MpInit
  /\ CpInit
  /\ PcInit
  /\ periodic_policy_ \in {PeriodicErrorPolicy(period, error, 0) :
                             period \in 1..MaxPeriod,
                             error \in {"kPacketDrop", "kCrcCorruption"}}
  /\ pe_flits = 0
  /\ UcInit
  /\ LkInit

SerializeWithPeriodicInjection ==
  /\ pe_flits < MaxPeriodicFlits
  /\ serialize_with_periodic_injection(pk_in, pk_hdr)
  /\ UNCHANGED <<txVars, rxVars, rbVars, epVars, rcvVars, mqVars, mpVars, cpVars, pcVars, ucVars, lkVars>>

NextPeriodic == SerializeWithPeriodicInjection

SpecPeriodic == InitPeriodic /\ [][NextPeriodic]_vars

\* the credit manager: configuration, initialisation, consumption and returns
ucRest ==
  <<txVars, rxVars, rbVars, epVars, pkVars, rcvVars, mqVars, mpVars, cpVars, pcVars, peVars,
    lkVars>>

\* the ports and virtual channels the calls name: two valid ones and one out of range
CreditPortInputs == {0, 1, kMaxPorts}
CreditVcInputs == {0, 1, kMaxVirtualChannels}

\* a per-VC configuration with one channel disabled, and a pooled configuration
CreditConfigInputs ==
  {PortCreditConfig([vc \in VirtualChannels |->
                       IF vc = 0 THEN VcCreditConfig(MaxConfiguredCredits, TRUE)
                       ELSE IF vc = 1 THEN VcCreditConfig(kDefaultCreditsPerVC, FALSE)
                       ELSE VcCreditConfig(kDefaultCreditsPerVC, TRUE)],
                    kDefaultPoolCredits, FALSE),
   PortCreditConfig([vc \in VirtualChannels |-> VcCreditConfig(kDefaultCreditsPerVC, TRUE)],
                    MaxConfiguredCredits, TRUE)}

\* return counts: one, more than any configured value, and the largest std::size_t
CreditCountInputs == {1, MaxConfiguredCredits + 1, -1}

NoCreditFields == UpliCreditPortFields(FALSE, FALSE, 0, 0)

\* a credit return message with one valid port
CreditReturnInputs ==
  {UpliCreditReturn([port \in Ports |->
                       IF port = p THEN UpliCreditPortFields(TRUE, pool, vc, num)
                       ELSE NoCreditFields],
                    [port \in Ports |-> port = p /\ done]) :
     p \in {0, 1}, pool \in BOOLEAN, vc \in {0, kMaxVirtualChannels}, num \in {0, 3},
     done \in BOOLEAN}

\* ports are configured before the credits are initialised
ConfigurePort ==
  /\ ~initialized_
  /\ \A port \in Ports : ~port_state_[port].port_init_done
  /\ uc_calls < MaxCreditCalls
  /\ \E port_id \in CreditPortInputs, config \in CreditConfigInputs :
       configure_port(port_id, config)
  /\ uc_calls' = uc_calls + 1
  /\ UNCHANGED ucRest

CreditReset ==
  /\ uc_calls < MaxCreditCalls
  /\ credit_reset
  /\ uc_calls' = uc_calls + 1
  /\ UNCHANGED ucRest

InitializeCredits ==
  /\ uc_calls < MaxCreditCalls
  /\ initialize_credits
  /\ uc_calls' = uc_calls + 1
  /\ UNCHANGED ucRest

ConsumeCredit ==
  /\ uc_calls < MaxCreditCalls
  /\ \E port_id \in CreditPortInputs, vc \in CreditVcInputs : consume_credit(port_id, vc)
  /\ uc_calls' = uc_calls + 1
  /\ UNCHANGED ucRest

ReturnCredits ==
  /\ uc_calls < MaxCreditCalls
  /\ \E port_id \in CreditPortInputs, vc \in CreditVcInputs, count \in CreditCountInputs :
       return_credits(port_id, vc, count)
  /\ uc_calls' = uc_calls + 1
  /\ UNCHANGED ucRest

ProcessCreditReturn ==
  /\ uc_calls < MaxCreditCalls
  /\ \E credits \in CreditReturnInputs : process_credit_return(credits)
  /\ uc_calls' = uc_calls + 1
  /\ UNCHANGED ucRest

NextCredit ==
  \/ ConfigurePort
  \/ CreditReset
  \/ InitializeCredits
  \/ ConsumeCredit
  \/ ReturnCredits
  \/ ProcessCreditReturn

SpecCredit == InitTx /\ [][NextCredit]_vars

\* the link: the sending endpoint sends read requests, the link delivers each
\* flit to the receiving endpoint and each command flit back to the sending one
\* the sending endpoint's transmit callback is set once, to the link
LinkUp == ~transmit_callback_ /\ SetTransmitCallback

LinkSend ==
  /\ transmit_callback_
  /\ ep_sends < MaxLinkSends
  /\ Len(to_receiver) + Len(to_sender) < MaxInFlight
  /\ send_read_request(0)
  /\ to_receiver' = to_receiver \o ep_out'
  /\ ep_sends' = ep_sends + 1
  /\ UNCHANGED <<txVars, rxVars, rb_adds, rb_acks, rb_next, pkVars, rcvVars, mqVars, mpVars,
                 cpVars, pcVars, peVars, ucVars, to_sender, peer_stats_, lk_ret>>

DeliverToReceiver ==
  /\ to_receiver # << >>
  /\ peer_receive_flit(Head(to_receiver))
  /\ to_receiver' = Tail(to_receiver)
  /\ UNCHANGED <<txVars, rbVars, epVars, pkVars, rcvVars, mqVars, mpVars, cpVars, pcVars,
                 peVars, ucVars>>

DeliverToSender ==
  /\ to_sender # << >>
  /\ link_receive_flit(Head(to_sender))
  /\ to_sender' = Tail(to_sender)
  /\ UNCHANGED <<txVars, rxVars, rb_adds, rb_acks, rb_next, ep_sends, tagVars, pkVars,
                 enable_crc_check_, enable_ack_nak_, rx_callback_, delivered, rx_notified,
                 mqVars, mpVars, cpVars, pcVars, peVars, ucVars, peer_stats_>>

NextLossFreeLink ==
  \/ LinkUp
  \/ LinkSend
  \/ DeliverToReceiver
  \/ DeliverToSender

SpecLossFreeLink == InitTx /\ [][NextLossFreeLink]_vars

(***************************************************************************)
(* Properties                                                              *)
(***************************************************************************)

\* C1: successive payload sequence allocations from a fresh or reset DlTxController
\* return 1, 2, ..., 511, 1, ...: each allocation returns the previous one plus one,
\* 511 is followed by 1, the first one is 1, and 0 is never returned.
\* (tx_alloc holds the last two allocations since construction or reset, 0: none.)
C1_PayloadSeqCycle ==
  /\ tx_alloc[2] = state_.last_seq
  /\ tx_alloc[2] = 0 => tx_alloc[1] = 0
  /\ tx_alloc[2] # 0 =>
       /\ tx_alloc[2] \in 1..511
       /\ tx_alloc[2] = IF tx_alloc[1] \in {0, 511} THEN 1 ELSE tx_alloc[1] + 1
  /\ tx_ret.op = "get_next_seq_for_payload" => tx_ret.seq = tx_alloc[2] /\ tx_ret.seq # 0

\* an allocation outside replay mode has returned 1 after 511
C1_Witness ==
  /\ tx_ret = TxRet("get_next_seq_for_payload", 1, TRUE)
  /\ tx_alloc = <<511, 1>>
  /\ ~state_.in_replay

\* the buffered sequence numbers are consecutive under the 511 -> 1 wrap
Consecutive == \A i \in 1..(count_ - 1) : LiveSeq(i + 1) = wrap_seq(LiveSeq(i))

\* the effect the cumulative Ack of the j-th oldest entry is specified to have
RetiresOldest(j) ==
  /\ rb_ret'.ret = j
  /\ count_' = count_ - j
  /\ oldest_seq' = IF j = count_ THEN 0 ELSE LiveSeq(j + 1)
  /\ newest_seq' = IF j = count_ THEN 0 ELSE newest_seq

C3_RetiresOnlyBehindAck ==
  [][(rb_acks' = rb_acks + 1 /\ rb_ret'.arg \in 1..511) =>
       \A i \in 1..rb_ret'.ret :
          2 * ((rb_ret'.arg + 511 - LiveSeq(i)) % 511) < 511]_vars

\* is sequence number seq held by the endpoint's replay buffer
Buffered(seq) == \E i \in 1..count_ : LiveSeq(i) = seq

\* the buffered flits from the one with sequence number seq to the newest
FlitsFrom(seq) ==
  LET first == CHOOSE i \in 1..count_ : LiveSeq(i) = seq
  IN [n \in 1..(count_ - first + 1) |->
        buffer_[(head_ + first + n - 2) % kReplayBufferSize].flit]

\* C4: replay_from(R) for a buffered R hands the transmit callback every buffered
\* flit from R to the newest, in order and as stored.
C4_ReplayResendsFromR ==
  (ep_ret.op = "replay_from" /\ ~ep_ret.threw /\ Buffered(ep_ret.arg))
    => ep_out = FlitsFrom(ep_ret.arg)

\* C5: expected_seq is 1 initially and after reset, and is in 1..511 in every
\* reachable state (advance follows the cycle 1, 2, ..., 511, 1).
C5_ExpectedSeqInCycle ==
  /\ expected_seq_ \in 1..511
  /\ rx_ret.op \in {"none", "reset"} => expected_seq_ = 1

\* C6: for a received sequence number that is neither expected nor a duplicate,
\* process_received_flit returns a Replay Request command flit whose ack_req_seq is
\* the expected sequence and whose flit_seq_lo is the low three bits of the caller's
\* tx sequence, and the expected sequence stays.
C6_GapRequestsReplay ==
  [][(/\ rx_ret'.op = "process_received_flit"
      /\ ~is_expected(rx_ret'.received_seq)
      /\ ~is_duplicate(rx_ret'.received_seq)) =>
       /\ rx_ret'.flit.has_value
       /\ deserialize_command_flit_header(rx_ret'.flit.flit.flit_header) =
            [op |-> kNak, payload |-> FALSE, ack_req_seq |-> expected_seq_,
             flit_seq_lo |-> rx_ret'.our_tx_seq_lo % 8]
       /\ expected_seq_' = expected_seq_]_vars

\* sequence number 4 arrived while 3 was expected, with tx low bits 13 = 8 + 5
C6_Witness ==
  /\ rx_ret = RxRet("process_received_flit", 4, 13, SomeFlit(create_nak(3, 5)))
  /\ expected_seq_ = 3

\* does the value process_received_flit returned hold an Ack for sequence number seq
IsAckFor(ret, seq) ==
  /\ ret.has_value
  /\ deserialize_command_flit_header(ret.flit.flit_header).op = kAck
  /\ deserialize_command_flit_header(ret.flit.flit_header).ack_req_seq = seq

\* C7: an in-order flit advances the expected sequence by one; with ack_every_n = 0
\* every in-order flit is answered by an Ack carrying its sequence number; with
\* ack_every_n = N > 0 the N-th, 2N-th, ... in-order flits (counted from the moment
\* the policy took effect with no flit pending) are, and no other in-order flit is.
C7_AckCadence ==
  [][(rx_ret'.op = "process_received_flit" /\ is_expected(rx_ret'.received_seq)) =>
       /\ expected_seq_' # expected_seq_
       /\ expected_seq_ < 511 => expected_seq_' = expected_seq_ + 1
       /\ ack_every_n_ = 0 => IsAckFor(rx_ret'.flit, rx_ret'.received_seq)
       /\ (ack_every_n_ > 0 /\ rx_stream.fresh) =>
            IF rx_stream'.pos = 0
              THEN IsAckFor(rx_ret'.flit, rx_ret'.received_seq)
              ELSE ~rx_ret'.flit.has_value]_vars

\* with ack_every_n = 3, the sixth in-order flit has been answered by an Ack
C7_Witness ==
  /\ ack_every_n_ = 3
  /\ rx_stream = [fresh |-> TRUE, pos |-> 0]
  /\ rx_ret.op = "process_received_flit"
  /\ rx_ret.received_seq = 6
  /\ IsAckFor(rx_ret.flit, 6)
  /\ expected_seq_ = 7

\* C8: a duplicate sequence number is answered by no command flit, and leaves the
\* expected sequence and the count of flits since the last Ack as they were.
C8_DuplicateChangesNothing ==
  [][(/\ rx_ret'.op = "process_received_flit"
      /\ ~is_expected(rx_ret'.received_seq)
      /\ is_duplicate(rx_ret'.received_seq)) =>
       /\ ~rx_ret'.flit.has_value
       /\ expected_seq_' = expected_seq_
       /\ flits_since_ack_' = flits_since_ack_]_vars

\* sequence number 2 arrived again while 3 was expected and one flit was unacknowledged
C8_Witness ==
  /\ rx_ret = RxRet("process_received_flit", 2, 2, NoFlit)
  /\ expected_seq_ = 3
  /\ flits_since_ack_ = 1

\* C9: for the expected sequence e of every reachable state and every s in 1..511,
\* is_duplicate(s) holds exactly when (e - s) mod 511 is in 1..255, and
\* is_duplicate(s) and is_expected(s) never both hold.
C9_DuplicateIsHalfWindow ==
  \A s \in 1..511 :
     /\ is_duplicate(s) <=> ((expected_seq_ + 511 - s) % 511) \in 1..255
     /\ ~(is_duplicate(s) /\ is_expected(s))

\* C10: the buffer never holds more than 512 entries; add_flit on a buffer holding
\* 512 entries returns false and leaves size, oldest and newest as they were;
\* add_flit on a buffer that is not full returns true and adds one to the size.
C10_CapacityRespected ==
  [][/\ count_' <= 512
     /\ rb_adds' = rb_adds + 1 =>
          IF count_ = 512
            THEN /\ rb_ret'.ret = FALSE
                 /\ count_' = count_
                 /\ oldest_seq' = oldest_seq
                 /\ newest_seq' = newest_seq
            ELSE /\ rb_ret'.ret = TRUE
                 /\ count_' = count_ + 1]_vars

\* add_flit has been refused on a buffer holding 512 entries
C10_Witness ==
  /\ count_ = 512
  /\ rb_ret.op = "add_flit"
  /\ rb_ret.ret = FALSE

\* C11: while the endpoint's replay buffer is full, a send request puts no flit on
\* the link and reports the condition; so every flit handed to the transmit callback
\* by a send request is held by the replay buffer afterwards.
C11_FullBufferBackpressure ==
  [][(ep_sends' = ep_sends + 1 /\ transmit_callback_) =>
       /\ is_full => (ep_out' = << >> /\ ep_ret'.threw)
       /\ \A n \in 1..Len(ep_out') :
            /\ newest_seq' = tx_last_seq_'
            /\ buffer_'[(tail_' + kReplayBufferSize - 1) % kReplayBufferSize].flit = ep_out'[n]]_vars

\* C14: serialize succeeds for every list of TL flits and packs min(length, 9) of
\* them, and the CRC-checked deserialize of the flit it made returns exactly the
\* first `packed` TL flits given, in order, with their data and message fields.
C14_PackUnpackRoundTrip ==
  /\ pk_ser.op = "serialize" =>
       /\ ~pk_ser.threw
       /\ pk_ser.packed = Min(Len(pk_in), 9)
  /\ (pk_ser.op = "serialize" /\ pk_out.op = "deserialize_with_crc_check") =>
       pk_out.result = SomeTlFlits(SubSeq(pk_in, 1, pk_ser.packed))

\* the flit of the last serialization came from serialize_with_error_injection under
\* the policy that always returns CrcCorruption
CorruptedFlit ==
  /\ pk_ser.op = "serialize_with_error_injection"
  /\ pk_ser.policy = "kCrcCorruption"
  /\ ~pk_ser.threw

ReceivesBadPayloadFlit ==
  /\ rcv_count' = rcv_count + 1
  /\ enable_crc_check_
  /\ decode_explicit_flit_header(rcv_ret'.flit.flit_header).payload
  /\ ~verify_crc32(rcv_ret'.flit.flit_header, rcv_ret'.flit.segment_headers,
                   rcv_ret'.flit.payload, rcv_ret'.flit.crc)

\* C12: with CRC checking enabled, receiving a payload flit whose CRC does not verify
\* hands no TL flit to a completion callback, leaves the expected receive sequence
\* where it was, transmits no Ack, and changes nothing of the endpoint but rx_dl_flits
\* and rx_crc_errors, each one more.
C12_BadCrcFlitDiscarded ==
  [][ReceivesBadPayloadFlit =>
       /\ delivered' = delivered
       /\ expected_seq_' = expected_seq_
       /\ ep_out' = << >>
       /\ stats_' = [stats_ EXCEPT !.rx_dl_flits = @ + 1, !.rx_crc_errors = @ + 1]
       /\ UNCHANGED <<ack_every_n_, flits_since_ack_, cmd_stats_, tx_last_seq_,
                      transmit_callback_, buffer_, head_, tail_, count_,
                      enable_crc_check_, enable_ack_nak_, rx_callback_>>]_vars

\* an endpoint with CRC checking, Ack/NAK processing and a transmit callback has
\* received a corrupted payload flit that carries the expected sequence number and a
\* read response
C12_Witness ==
  /\ rcv_count = 1
  /\ enable_crc_check_ /\ enable_ack_nak_ /\ transmit_callback_
  /\ decode_explicit_flit_header(rcv_ret.flit.flit_header).payload
  /\ decode_explicit_flit_header(rcv_ret.flit.flit_header).flit_seq_no = 1
  /\ ~verify_crc32(rcv_ret.flit.flit_header, rcv_ret.flit.segment_headers,
                   rcv_ret.flit.payload, rcv_ret.flit.crc)
  /\ \E tl_flit \in {deserialize(rcv_ret.flit)[n] : n \in 1..Len(deserialize(rcv_ret.flit))} :
       completes(tl_flit)
  /\ stats_.rx_crc_errors = 1
  /\ expected_seq_ = 1

\* the group of the message a returned DWord belongs to
OutGroup(p) == get_message_group(mq_out[p].msg)

PopStep == mq_enqueued' = mq_enqueued /\ mqVars' # mqVars

\* the DWord returned last belongs to a UART Stream Transport that has payload DWords
\* still to come
TransportOpen ==
  /\ mq_out # << >>
  /\ mq_out[Len(mq_out)].msg.type = "UartStreamTransportMessage"
  /\ mq_out[Len(mq_out)].index < Len(mq_out[Len(mq_out)].msg.payload_dwords)

\* C16: from the header DWord of a UART Stream Transport until its last payload DWord,
\* every pop_next_dword call returns the next payload DWord of that transport,
\* whatever was enqueued in between.
C16_TransportAtomic ==
  [][(TransportOpen /\ PopStep) =>
       LET last == mq_out[Len(mq_out)]
       IN /\ mq_ret'.has_value
          /\ mq_ret'.dword =
               [header |-> FALSE, bytes |-> store_be32(last.msg.payload_dwords[last.index + 1])]
          /\ Len(mq_out') = Len(mq_out) + 1
          /\ mq_out'[Len(mq_out')].msg = last.msg
          /\ mq_out'[Len(mq_out')].index = last.index + 1
          /\ mq_out'[Len(mq_out')].dword = mq_ret'.dword]_vars

\* a transport's header and all its payload DWords were returned in a row while
\* messages of the other two groups and another UART message were waiting
C16_Witness ==
  \E p \in 1..(Len(mq_out) - MaxPayloadDwords) :
    /\ mq_out[p].index = 0
    /\ Len(mq_out[p].msg.payload_dwords) = MaxPayloadDwords
    /\ \A j \in 1..MaxPayloadDwords :
         mq_out[p + j].msg = mq_out[p].msg /\ mq_out[p + j].index = j
    /\ mq_out[p].pending = {"kBasic", "kControl"}
    /\ Len(mq_out) = p + MaxPayloadDwords
    /\ uart_queue_ # << >> /\ basic_queue_ # << >> /\ control_queue_ # << >>

\* C17: of two DWords returned for the same group, the earlier returned belongs to the
\* message enqueued earlier, or to the same message at a lower index.
C17_GroupFifo ==
  \A p \in 1..Len(mq_out) : \A q \in (p + 1)..Len(mq_out) :
    OutGroup(p) = OutGroup(q) =>
      \/ mq_out[p].msg.id < mq_out[q].msg.id
      \/ mq_out[p].msg.id = mq_out[q].msg.id /\ mq_out[p].index < mq_out[q].index

\* two messages of one group that were not enqueued one right after the other were
\* both returned
C17_Witness ==
  \E p \in 1..Len(mq_out) : \E q \in (p + 1)..Len(mq_out) :
    /\ OutGroup(p) = OutGroup(q)
    /\ mq_out[q].msg.id > mq_out[p].msg.id + 1

\* C18: while a group has a message pending, at most one message of each other group
\* is served before its front message is; and a group is served twice in a row only
\* when the other two groups had nothing pending the second time.
C18_NoStarvation ==
  /\ \A g \in Groups : \A h \in Groups : mq_wait[g][h] <= 1
  /\ \A p \in 1..Len(mq_out) : \A q \in (p + 1)..Len(mq_out) :
       (/\ mq_out[p].index = 0
        /\ mq_out[q].index = 0
        /\ \A r \in (p + 1)..(q - 1) : mq_out[r].index # 0
        /\ OutGroup(p) = OutGroup(q)) => mq_out[q].pending = {}

\* a Basic message has waited for one Control message and one UART Stream Transport
C18_Witness ==
  /\ basic_queue_ # << >>
  /\ mq_wait["kBasic"]["kControl"] = 1
  /\ mq_wait["kBasic"]["kUart"] = 1
  /\ mq_flight.msg.type = "UartStreamTransportMessage"

\* the state the negotiation table gives for a state and a received command
ClaimedChannelState(state, command) ==
  IF state = "kOffline" /\ command = 0 THEN "kRequestSent"
  ELSE IF state = "kRequestSent" /\ command = 1 THEN "kOnline"
  ELSE IF state = "kRequestSent" /\ command = 2 THEN "kOffline"
  ELSE state

\* the last call processed the DWord of a serialized ChannelNegotiation message
ReceivedNegotiation ==
  mp_ret.op = "process_dword" /\ mp_ret.arg \in SerializedNegotiationInputs

\* C19: processing a received ChannelNegotiation message takes the channel state
\* from Offline to RequestSent on Request, from RequestSent to Online on Ack and
\* from RequestSent to Offline on NAck, and leaves it unchanged for every other
\* state and command
C19_NegotiationTransitions ==
  ReceivedNegotiation =>
    channel_state_.state =
      ClaimedChannelState(mp_ret.before.channel_state.state,
                          deserialize_channel_negotiation(mp_ret.arg).msg.channel_command)

\* the time now - request_time of two 64-bit unsigned times is at least the window
UnsignedDifferenceAtLeast(now, request_time, window) ==
  now < request_time \/ now - request_time >= window

\* the last check_basic_timeout call found a timeout pending and its window elapsed
TimeoutDue ==
  /\ mp_ret.before.basic_timeout.waiting_for_response
  /\ UnsignedDifferenceAtLeast(mp_ret.now, mp_ret.before.basic_timeout.request_time_us,
                               mp_ret.timeout_us)

\* C20: check_basic_timeout returns Expired exactly when a timeout is pending and
\* now - request_time >= window, then counting one timeout and clearing pending;
\* otherwise it returns NoTimeout and changes nothing; no start_basic_timeout is
\* followed by two Expired results
C20_CheckBasicTimeout ==
  /\ mp_expired <= 1
  /\ mp_ret.op = "check_basic_timeout" =>
       /\ mp_ret.result = (IF TimeoutDue THEN "kTimeoutExpired" ELSE "kNoTimeout")
       /\ mp_stats_ = (IF TimeoutDue
                         THEN [mp_ret.before.stats EXCEPT !.timeouts = @ + 1]
                         ELSE mp_ret.before.stats)
       /\ basic_timeout_ = (IF TimeoutDue
                              THEN [mp_ret.before.basic_timeout
                                      EXCEPT !.waiting_for_response = FALSE]
                              ELSE mp_ret.before.basic_timeout)
       /\ channel_state_ = mp_ret.before.channel_state
       /\ uart_reassembly_ = mp_ret.before.uart_reassembly

\* a check made exactly one window after the request time returned Expired
C20_Witness ==
  /\ mp_ret.op = "check_basic_timeout"
  /\ mp_ret.result = "kTimeoutExpired"
  /\ mp_ret.timeout_us > 0
  /\ mp_ret.now = mp_ret.before.basic_timeout.request_time_us + mp_ret.timeout_us
  /\ mp_expired = 1

\* the last call processed a DWord that found a basic timeout pending and cleared it
ClearedByDword ==
  /\ mp_ret.op = "process_dword"
  /\ mp_ret.before.basic_timeout.waiting_for_response
  /\ ~basic_timeout_.waiting_for_response

\* C21: a received DWord clears a pending basic timeout only when it is a TlRate,
\* DeviceId or PortId message with ack = true
C21_TimeoutClearedOnlyByAck ==
  ClearedByDword =>
    /\ mp_ret.called.callback \in {"tl_rate_callback_", "device_id_callback_", "port_id_callback_"}
    /\ mp_ret.called.msg.ack

\* the last call processed a UART message other than a Stream Transport, as
\* process_dword classifies it, while a reassembly with payload was in progress and
\* the transport callback was set
TransportCompleted ==
  /\ mp_ret.op = "process_dword"
  /\ mp_ret.before.uart_reassembly.in_progress
  /\ (mp_ret.arg[1] \div 64) % 4 = 2
  /\ dispatch_mtype(mp_ret.arg) \in {0, 1, 3}
  /\ Len(mp_fed) >= 2
  /\ "uart_transport_callback_" \in callbacks_

\* C22: when a UART message other than a Stream Transport arrives after a Stream
\* Transport header and payload DWords, the transport callback receives the stream id
\* of the header with the DWords that followed it, in order, and reassembly is no
\* longer in progress
C22_ReassemblyDelivered ==
  TransportCompleted =>
    /\ ~uart_reassembly_.in_progress
    /\ mp_ret.called.callback = "uart_transport_callback_"
    /\ mp_ret.called.msg.stream_id = mp_ret.before.uart_reassembly.stream_id
    /\ mp_ret.called.msg.payload_dwords = SubSeq(mp_fed, 1, Len(mp_fed) - 1)

\* the callback member registered for a message type and the counter of its class
CallbackOfType(type) ==
  CASE type = "NoOpMessage" -> "noop_callback_"
    [] type = "TlRateNotification" -> "tl_rate_callback_"
    [] type = "DeviceIdMessage" -> "device_id_callback_"
    [] type = "PortIdMessage" -> "port_id_callback_"
    [] type = "ChannelNegotiation" -> "control_callback_"
    [] type = "UartStreamResetRequest" -> "uart_reset_req_callback_"
    [] type = "UartStreamResetResponse" -> "uart_reset_rsp_callback_"
    [] type = "UartStreamCreditUpdate" -> "uart_credit_callback_"

ReceivedCounted(type, stats) ==
  IF type \in {"NoOpMessage", "TlRateNotification", "DeviceIdMessage", "PortIdMessage"}
    THEN [stats EXCEPT !.basic_received = @ + 1]
  ELSE IF type = "ChannelNegotiation" THEN [stats EXCEPT !.control_received = @ + 1]
  ELSE [stats EXCEPT !.uart_received = @ + 1]

\* C23: process_dword of the DWord serialized for a single-DWord message returns
\* true, increments the received counter of the message's class and no other, and
\* passes a message with the same fields to the callback registered for its type
C23_SerializedMessageDispatched ==
  \A m \in SingleDwordInputs :
    (mp_ret.op = "process_dword" /\ mp_ret.arg = m.dword) =>
      /\ mp_ret.result = "true"
      /\ mp_stats_ = ReceivedCounted(m.type, mp_ret.before.stats)
      /\ CallbackOfType(m.type) \in callbacks_ =>
           mp_ret.called = Called(CallbackOfType(m.type), m.msg)

\* the last call processed a DWord whose compressed flag (bit 0) is set
ReceivedCompressed == mp_ret.op = "process_dword" /\ compressed_bit(mp_ret.arg) # 0

\* C30: a received DWord with the compressed flag set invokes no callback, changes
\* neither the channel state, the basic timeout nor the reassembly, and increments
\* deserialization_errors by one
C30_CompressedCountedAsError ==
  ReceivedCompressed =>
    /\ mp_ret.called.callback = "none"
    /\ channel_state_ = mp_ret.before.channel_state
    /\ basic_timeout_ = mp_ret.before.basic_timeout
    /\ uart_reassembly_ = mp_ret.before.uart_reassembly
    /\ mp_stats_.deserialization_errors = mp_ret.before.stats.deserialization_errors + 1

\* a step that is a tick_explicit_count call (every tick changes state_)
TickStep == tx_ret'.op = "tick_explicit_count" /\ state_' # state_

\* C28: explicit_count stays in 1..31; the first tick after start_replay returns
\* true, clears first_replay and resets explicit_count to 0x1F; any other tick returns
\* true exactly when 30 ticks returned false since the last true result (or since
\* construction), and then explicit_count is back to 0x1F
C28_ExplicitCountPeriod ==
  [][/\ state_'.explicit_count \in 1..31
     /\ TickStep =>
          IF state_.first_replay
            THEN /\ tx_ret'.flag
                 /\ ~state_'.first_replay
                 /\ state_'.explicit_count = 31
            ELSE /\ tx_ret'.flag <=> tx_falses.run = 30
                 /\ tx_ret'.flag => state_'.explicit_count = 31]_vars

\* the 31st tick of a period returned true outside a replay
C28_Witness ==
  /\ tx_ret.op = "tick_explicit_count"
  /\ tx_ret.flag
  /\ tx_falses.last = 30
  /\ state_.explicit_count = 31
  /\ ~state_.in_replay

\* C27: every Ack the Tx controller generates carries op 0b010 and every
\* Replay Request op 0b011, both with the payload bit clear, the requested
\* ack_req_seq and flit_seq_lo equal to the low 3 bits of last_seq at the time
\* of generation, and generating one leaves the sequence state as it was.
GeneratedCommand == tx_ret.op \in {"generate_ack", "generate_replay_request"}

C27_GeneratedCommandFields ==
  GeneratedCommand =>
    LET header == deserialize_command_flit_header(tx_ret.flit.flit_header)
    IN /\ header.op = (IF tx_ret.op = "generate_ack" THEN 2 ELSE 3)
       /\ ~header.payload
       /\ header.ack_req_seq = tx_ret.seq
       /\ header.flit_seq_lo = tx_ret.before.last_seq % 8
       /\ state_ = tx_ret.before

\* C25: process_flit returns false, invoking no callback and changing no counter,
\* exactly when the flit is not a command (payload bit set, or op neither Ack nor
\* Replay Request); for an Ack or Replay Request whose CRC verifies it returns
\* true, adds one to the matching received counter and to no other, and invokes
\* the matching callback, if one is set, exactly once with the flit's ack_req_seq
\* and no other callback.
CommandProcessed == cp_ret.op = "process_flit"

ProcessedHeader == deserialize_command_flit_header(cp_ret.flit.flit_header)

NotACommand ==
  ProcessedHeader.payload \/ (ProcessedHeader.op # kAck /\ ProcessedHeader.op # kNak)

CrcValidCommand(op) ==
  /\ ~ProcessedHeader.payload
  /\ ProcessedHeader.op = op
  /\ cp_ret.flit.crc = compute_crc32(cp_ret.flit.flit_header, cp_ret.flit.segment_headers,
                                     cp_ret.flit.payload)

C25_CommandProcessorResult ==
  CommandProcessed =>
    /\ ~cp_ret.result <=> NotACommand
    /\ NotACommand => cp_ret.called = << >> /\ cmd_stats_ = cp_ret.before
    /\ CrcValidCommand(kAck) =>
         /\ cp_ret.result
         /\ cmd_stats_ = [cp_ret.before EXCEPT !.acks_received = @ + 1]
         /\ cp_ret.called = IF cp_ret.ack_callback
                              THEN << <<"ack_callback_", ProcessedHeader.ack_req_seq>> >>
                              ELSE << >>
    /\ CrcValidCommand(kNak) =>
         /\ cp_ret.result
         /\ cmd_stats_ = [cp_ret.before EXCEPT !.naks_received = @ + 1]
         /\ cp_ret.called = IF cp_ret.nak_callback
                              THEN << <<"nak_callback_", ProcessedHeader.ack_req_seq>> >>
                              ELSE << >>

\* an Ack and then a Replay Request with a good CRC went to their callbacks
C25_Witness ==
  /\ CommandProcessed
  /\ CrcValidCommand(kNak)
  /\ cp_ret.called = << <<"nak_callback_", 511>> >>
  /\ cmd_stats_ = [acks_received |-> 1, naks_received |-> 1]

\* C26: a command flit (payload bit 0, op Ack or Replay Request) whose CRC does
\* not verify is consumed without effect: process_flit returns true and invokes
\* neither callback, and the endpoint that received it retires no replay-buffer
\* entry, hands nothing to the transmit callback and does not treat the flit as
\* payload (no CRC error counted, no TL flit delivered, no Ack or Replay Request
\* generated); only rx_dl_flits moves.
BadCrcCommand(flit) ==
  LET header == deserialize_command_flit_header(flit.flit_header)
  IN /\ ~header.payload
     /\ header.op = kAck \/ header.op = kNak
     /\ flit.crc # compute_crc32(flit.flit_header, flit.segment_headers, flit.payload)

ReceivedBadCrcCommand ==
  /\ rcv_count' = rcv_count + 1
  /\ enable_ack_nak_
  /\ BadCrcCommand(rcv_ret'.flit)

C26_BadCrcCommandConsumed ==
  [][ReceivedBadCrcCommand =>
       /\ cp_ret'.op = "process_flit" /\ cp_ret'.flit = rcv_ret'.flit
       /\ cp_ret'.result
       /\ cp_ret'.called = << >>
       /\ cmd_stats_' = cmd_stats_
       /\ UNCHANGED <<buffer_, head_, tail_, count_>>
       /\ ep_out' = << >>
       /\ ~rcv_ret'.threw
       /\ stats_' = [stats_ EXCEPT !.rx_dl_flits = @ + 1]
       /\ UNCHANGED <<delivered, rx_notified, expected_seq_, flits_since_ack_>>]_vars

\* a corrupted Ack for sequence number 2 arrived with flits 1 and 2 in the replay
\* buffer and the transmit callback set
C26_Witness ==
  /\ rcv_count = 1
  /\ enable_ack_nak_
  /\ BadCrcCommand(rcv_ret.flit)
  /\ deserialize_command_flit_header(rcv_ret.flit.flit_header).op = kAck
  /\ deserialize_command_flit_header(rcv_ret.flit.flit_header).ack_req_seq = 2
  /\ count_ = 2
  /\ transmit_callback_

\* C24: whenever the Tx pacing callback answers Throttle or Drop,
\* serialize_with_pacing returns the empty flit with packed = 0, and the endpoint
\* hands nothing to the transmit callback for that send, adds nothing to the
\* replay buffer and adds one to tx_dropped_by_pacing; when it answers Allow the
\* flit is packed as serialize packs it, buffered and transmitted.
PacedSerialization ==
  pk_ser.op = "serialize_with_pacing" =>
    IF pk_ser.policy \in {"kThrottle", "kDrop"}
      THEN /\ pk_ser.flit = EmptyPackedFlit
           /\ pk_ser.packed = 0
      ELSE /\ pk_ser.flit = serialize(pk_in, pk_hdr).flit
           /\ pk_ser.packed = serialize(pk_in, pk_hdr).packed

ConfiguredSend == pc_sends' = pc_sends + 1 /\ transmit_callback_

PacedSend ==
  /\ (ConfiguredSend /\ tx_callback_ \in {"kThrottle", "kDrop"}) =>
       /\ ep_out' = << >>
       /\ UNCHANGED <<buffer_, head_, tail_, count_>>
       /\ tx_path_stats_'.tx_dropped_by_pacing = tx_path_stats_.tx_dropped_by_pacing + 1
       /\ tx_path_stats_'.tx_dl_flits = tx_path_stats_.tx_dl_flits
  /\ (ConfiguredSend /\ tx_callback_ = "kAllow") =>
       /\ Len(ep_out') = 1
       /\ deserialize_with_crc_check(ep_out'[1]) = SomeTlFlits(<<TlFlit(TlData(ep_ret'.arg), 0)>>)
       /\ count_' = count_ + 1
       /\ tx_path_stats_'.tx_dropped_by_pacing = tx_path_stats_.tx_dropped_by_pacing
       /\ tx_path_stats_'.tx_dl_flits = tx_path_stats_.tx_dl_flits + 1

C24_ThrottleAndDrop == []PacedSerialization /\ [][PacedSend]_vars

\* C29: no error is silently swallowed: each of these events adds to at least one
\* statistics counter that a get_stats returns - a payload flit failing CRC, a
\* command flit failing CRC, a DWord with the compressed flag set, a DWord of
\* reserved class or unknown type, a Replay Request for a sequence number not in
\* the replay buffer, and a refused add to a full replay buffer.
Counted(before, after) == \E counter \in DOMAIN before : after[counter] > before[counter]

CounterIncremented ==
  \/ Counted(stats_, stats_')
  \/ Counted(cmd_stats_, cmd_stats_')
  \/ Counted(mp_stats_, mp_stats_')
  \/ Counted(tx_path_stats_, tx_path_stats_')
  \/ Counted(tx_stats_, tx_stats_')

PayloadFlitFailedCrc ==
  /\ rcv_count' = rcv_count + 1
  /\ enable_crc_check_
  /\ ~(enable_ack_nak_ /\ is_command(rcv_ret'.flit))
  /\ ~deserialize_with_crc_check(rcv_ret'.flit).has_value

CommandFlitFailedCrc ==
  /\ cp_calls' = cp_calls + 1
  /\ BadCrcCommand(cp_ret'.flit)

DwordProcessed == mp_calls' = mp_calls + 1 /\ mp_ret'.op = "process_dword"

CompressedDword == DwordProcessed /\ compressed_bit(mp_ret'.arg) = 1

ReservedOrUnknownDword ==
  /\ DwordProcessed
  /\ LET mclass == (mp_ret'.arg[1] \div 64) % 4
         mtype == dispatch_mtype(mp_ret'.arg)
     IN \/ mclass = 3
        \/ mclass = 0 /\ mtype \notin {0, 4, 5, 6}
        \/ mclass = 1 /\ mtype # 4
        \/ mclass = 2 /\ mtype \notin 0..3

ReplayRequestNotBuffered ==
  /\ cp_calls' = cp_calls + 1
  /\ ~BadCrcCommand(cp_ret'.flit)
  /\ LET header == deserialize_command_flit_header(cp_ret'.flit.flit_header)
     IN /\ ~header.payload /\ header.op = kNak
        /\ \A i \in 0..(count_ - 1) :
              buffer_[(head_ + i) % kReplayBufferSize].seq_no # header.ack_req_seq

AddRefused ==
  /\ pc_sends' = pc_sends + 1
  /\ rb_ret' = RbRet("add_flit", next_seq(tx_last_seq_), FALSE)
  /\ is_full

C29_NoErrorSilentlySwallowed ==
  [][(\/ PayloadFlitFailedCrc
      \/ CommandFlitFailedCrc
      \/ CompressedDword
      \/ ReservedOrUnknownDword
      \/ ReplayRequestNotBuffered
      \/ AddRefused) => CounterIncremented]_vars

\* C34: every payload sequence allocation reports should_buffer = true exactly
\* when the controller is not in replay mode: false for every allocation made
\* between start_replay and finish_replay (or a reset), true otherwise, and the
\* returned sequence number is the one after the last in both modes.
C34_ShouldBufferOutsideReplay ==
  [][(tx_alloc'[1] = tx_alloc[2] /\ tx_ret'.op = "get_next_seq_for_payload"
        /\ state_'.last_seq # state_.last_seq) =>
       /\ tx_ret'.flag <=> ~tx_open
       /\ tx_ret'.seq = IF state_.last_seq = 511 THEN 1 ELSE state_.last_seq + 1
       /\ state_'.last_seq = tx_ret'.seq]_vars

\* an allocation in replay mode returned 1 after 511
C34_Witness ==
  /\ tx_ret = TxRet("get_next_seq_for_payload", 1, FALSE)
  /\ tx_alloc = <<511, 1>>
  /\ tx_open

\* C33: handling a Replay Request allocates no sequence number and does not
\* modify the replay buffer: after replay_from(R) the endpoint's last transmit
\* sequence and the buffer's size, oldest and newest sequence number are what they
\* were, and every flit handed to the transmit callback is a buffered flit that
\* carries the sequence number it was buffered under.
ReplayHandled == ep_ret'.op = "replay_from" /\ (ep_ret' # ep_ret \/ rb_ret' # rb_ret)

C33_ReplayLeavesSequenceState ==
  [][ReplayHandled =>
       /\ tx_last_seq_' = tx_last_seq_
       /\ count_' = count_
       /\ oldest_seq' = oldest_seq
       /\ newest_seq' = newest_seq
       /\ \A n \in 1..Len(ep_out') :
            \E i \in 1..count_ :
               /\ buffer_[(head_ + i - 1) % kReplayBufferSize].flit = ep_out'[n]
               /\ decode_explicit_flit_header(ep_out'[n].flit_header).flit_seq_no = LiveSeq(i)]_vars

\* replay_from(1) was handled with flits 1, 2 and 3 buffered and transmitted
C33_Witness ==
  /\ ep_ret = EpRet("replay_from", 1, FALSE)
  /\ count_ = 3
  /\ oldest_seq = 1 /\ newest_seq = 3
  /\ tx_last_seq_ = 3

Serialized == pk_ser.op = "serialize" /\ ~pk_ser.threw

PlacedAtOffsets ==
  \A i \in 0..(pk_ser.packed - 1) :
     \A k \in 0..(kTlFlitBytes - 1) :
        pk_ser.flit.payload[kTlFlitBytes * i + k] = pk_in[i + 1].data[k]

C35_Slot1OnlyInFullSegments ==
  Serialized =>
    /\ pk_ser.packed = Min(Len(pk_in), 9)
    /\ PlacedAtOffsets
    /\ \A s \in {3, 4} : ~decode_segment_header(pk_ser.flit.segment_headers[s]).tl_flit1_present

\* C36: a send whose flit is dropped, by pacing or by an injected PacketDrop,
\* leaves tx_last_seq_ and the replay buffer as they were and hands nothing to
\* the transmit callback; the n-th flit handed to the transmit callback carries
\* sequence number ((n - 1) mod 511) + 1
DroppedSend ==
  \/ tx_path_stats_'.tx_dropped_by_pacing = tx_path_stats_.tx_dropped_by_pacing + 1
  \/ tx_path_stats_'.tx_dropped_by_error_injection
       = tx_path_stats_.tx_dropped_by_error_injection + 1

HandedToSink ==
  /\ tx_path_stats_'.tx_read_requests = tx_path_stats_.tx_read_requests + 1
  /\ ep_out' # << >>

C36_DropsConsumeNoSequenceNumber ==
  [][/\ DroppedSend =>
          /\ ep_out' = << >>
          /\ tx_last_seq_' = tx_last_seq_
          /\ <<buffer_, head_, tail_, count_>>' = <<buffer_, head_, tail_, count_>>
     /\ HandedToSink =>
          /\ Len(ep_out') = 1
          /\ decode_explicit_flit_header(ep_out'[1].flit_header).flit_seq_no
               = (tx_path_stats_.tx_dl_flits % 511) + 1
          /\ tx_path_stats_'.tx_dl_flits = tx_path_stats_.tx_dl_flits + 1]_vars

C36_Witness ==
  /\ tx_path_stats_ = TxPathStats(513, 512, 0, 1)
  /\ ep_out # << >>
  /\ decode_explicit_flit_header(ep_out[1].flit_header).flit_seq_no = 1

\* the DWords pop_next_dword returned for message msg at index i of its serialization
Returned(msg, i) == {p \in 1..Len(mq_out) : mq_out[p].msg = msg /\ mq_out[p].index = i}

\* every DWord returned is a DWord of an enqueued message, returned once
ReturnedAtMostOnce ==
  \A p \in 1..Len(mq_out) :
     /\ \E n \in 1..Len(mq_in) : mq_in[n] = mq_out[p].msg
     /\ mq_out[p].dword = serialize_message(mq_out[p].msg)[mq_out[p].index + 1]
     /\ Returned(mq_out[p].msg, mq_out[p].index) = {p}

\* every DWord of every enqueued message that serializes was returned
AllReturned ==
  \A n \in 1..Len(mq_in) :
     ~(mq_in[n].type = "UartStreamTransportMessage" /\ transport_throws(mq_in[n])) =>
        \A i \in 1..Len(serialize_message(mq_in[n])) : Returned(mq_in[n], i - 1) # {}

ReturnedNothing == ~mq_ret'.has_value /\ ~mq_ret'.threw

\* C37: every DWord returned belongs to an enqueued message and is returned once;
\* pop_next_dword returns nothing exactly when has_pending_messages is false, which
\* is when the three queues are empty and no UART Stream Transport is in progress;
\* by then every DWord of every enqueued message was returned, and nothing is
\* pending afterwards until the next enqueue; and a caller that keeps popping
\* reaches that state
C37_DrainsExactlyOnce ==
  /\ []ReturnedAtMostOnce
  /\ [](has_pending_messages <=>
          ~(/\ basic_queue_ = << >> /\ control_queue_ = << >> /\ uart_queue_ = << >>
            /\ ~uart_transport_state_.in_progress))
  /\ [](~has_pending_messages => AllReturned)
  /\ [][PopStep => /\ ReturnedNothing <=> ~has_pending_messages
                   /\ ~has_pending_messages => ~has_pending_messages']_vars
  /\ <>[](~has_pending_messages /\ AllReturned)

C37_Witness ==
  /\ mq_ret = MqRet("pop_next_dword", FALSE, NoDword, "kNone", FALSE)
  /\ Len(mq_in) = MaxDrainEnqueues
  /\ Len(mq_out) = 2 * (MaxPayloadDwords + 1) + 1

\* the last call processed a DWord that reached the ChannelNegotiation case of
\* dispatch_control_message and decoded
NegotiationDispatched ==
  /\ mp_ret.op = "process_dword"
  /\ (mp_ret.arg[1] \div 64) % 4 = 1
  /\ dispatch_mtype(mp_ret.arg) = 4
  /\ deserialize_channel_negotiation(mp_ret.arg).has_value

\* the last call processed a DWord that reached the TL Rate, Device ID or Port ID
\* case of dispatch_basic_message, decoded and is a response, while a basic timeout
\* was pending
ResponseDispatched ==
  /\ mp_ret.op = "process_dword"
  /\ (mp_ret.arg[1] \div 64) % 4 = 0
  /\ mp_ret.before.basic_timeout.waiting_for_response
  /\ \/ /\ dispatch_mtype(mp_ret.arg) = 4
        /\ deserialize_tl_rate_notification(mp_ret.arg).has_value
     \/ /\ dispatch_mtype(mp_ret.arg) = 5
        /\ deserialize_device_id_message(mp_ret.arg).has_value
        /\ deserialize_device_id_message(mp_ret.arg).msg.ack
     \/ /\ dispatch_mtype(mp_ret.arg) = 6
        /\ deserialize_port_id_message(mp_ret.arg).has_value
        /\ deserialize_port_id_message(mp_ret.arg).msg.ack

\* C38: a dispatched ChannelNegotiation message moves the channel state as the
\* state machine says, and a dispatched response cancels the pending basic timeout,
\* whether or not the callback of that message type is set
C38_EffectsWithoutCallback ==
  /\ NegotiationDispatched =>
       channel_state_.state =
         next_channel_state(mp_ret.before.channel_state.state,
                            deserialize_channel_negotiation(mp_ret.arg).msg.channel_command)
  /\ ResponseDispatched => ~basic_timeout_.waiting_for_response

\* the flit serialized last came back dropped: no flit, no TL flit packed
FlitDropped == pk_ser.packed = 0 /\ pk_ser.flit = EmptyPackedFlit

\* the flit serialized last came back with a CRC that does not verify
FlitCrcCorrupted ==
  /\ pk_ser.packed > 0
  /\ ~verify_crc32(pk_ser.flit.flit_header, pk_ser.flit.segment_headers,
                   pk_ser.flit.payload, pk_ser.flit.crc)

\* C39: with PeriodicErrorPolicy(N, E) in an enabled injector, the k-th flit passed
\* through serialize_with_error_injection is dropped exactly when E = PacketDrop
\* and N divides k, and carries a corrupted CRC exactly when E = CrcCorruption and
\* N divides k
C39_EveryNthFlitAffected ==
  pe_flits > 0 =>
    /\ FlitDropped <=> /\ periodic_policy_.error_type_ = "kPacketDrop"
                       /\ pe_flits % periodic_policy_.period_ = 0
    /\ FlitCrcCorrupted <=> /\ periodic_policy_.error_type_ = "kCrcCorruption"
                            /\ pe_flits % periodic_policy_.period_ = 0

\* the value initialize_credits installs for a port and virtual channel: the pool's
\* credits in pool mode, the channel's initial credits when it is enabled
configured_initial(config, vc) ==
  IF config.use_pool THEN config.pool_credits
  ELSE IF config.vc_config[vc].enabled THEN config.vc_config[vc].initial_credits
  ELSE 0

\* every credit count of the manager is between 0 and its configured initial value
CreditsWithinInitial ==
  \A port \in Ports, vc \in VirtualChannels :
    /\ get_available_credits(port_state_[port], vc) \in
         0..configured_initial(port_config_[port], vc)
    /\ port_state_[port].pool_available \in
         0..(IF port_config_[port].use_pool THEN port_config_[port].pool_credits ELSE 0)

\* a consume_credit call that did not throw
ConsumeStep(port, vc, result) ==
  /\ uc_calls' # uc_calls
  /\ uc_ret' = UcRet("consume_credit", port, vc, result)

AcceptedAsExpected ==
  lk_ret.op = "peer_receive_flit" =>
    /\ lk_ret.reply.has_value
    /\ deserialize_command_flit_header(lk_ret.reply.flit.flit_header).op = kAck
    /\ deserialize_command_flit_header(lk_ret.reply.flit.flit_header).ack_req_seq =
         decode_explicit_flit_header(lk_ret.flit.flit_header).flit_seq_no

\* nothing is on the link: every flit sent has arrived and every Ack has been processed
LinkQuiet == to_receiver = << >> /\ to_sender = << >>

\* C32: on a loss-free, in-order link (Ack enabled, ack_every_n = 0, CRC check on,
\* no pacing, no error injection), however many flits are sent, 512 and more
\* included, the receiving endpoint accepts every flit as the expected one and
\* never emits a Replay Request, and once the Ack of the last flit sent has been
\* processed the sending endpoint's replay buffer is empty.
C32_LossFreeLinkInOrder ==
  /\ AcceptedAsExpected
  /\ peer_stats_.tx_replay_requests_sent = 0
  /\ peer_stats_.tx_acks_sent = peer_stats_.rx_dl_flits
  /\ LinkQuiet => is_empty

====
